---- MODULE Spec2Model ----
(***************************************************************************)
(* slotPaste agent: the mode state machine (state_machine.rs), the event   *)
(* tap that feeds it (macos/event_tap.rs), the UDP response listener       *)
(* (ipc/udp.rs), the timeout threads and the clipboard bridge              *)
(* (macos/clipboard.rs, macos/paste.rs).                                   *)
(***************************************************************************)
EXTENDS Integers, Sequences, FiniteSets, TLC

(***************************************************************************)
(* Bounds of the model.                                                    *)
(***************************************************************************)
MaxToken == 2        \* at most this many armings in a run
MaxQueue == 1        \* events waiting in the mpsc channel
MaxTicks == 2        \* clock ticks, each one chooser window
MaxSlotKeys == 2     \* how many of the six slot keys the user presses
MaxClipChanges == 1  \* clipboard changes during one read_text_with_retry
MaxLines == 1        \* lines in one inbound datagram

(***************************************************************************)
(* Program constants.                                                      *)
(***************************************************************************)
MODE_IDLE == 0
MODE_COPY_ARMED == 1
MODE_COPY_SELECTING == 2
MODE_PASTE_SELECTING == 3
SLOT_SELECT_WINDOW == 800
CMD_MASK == 1048576
RETRY_INTERVAL == 50
MAX_TRIES == 6
SAVE_MAX_WAIT == 300
VK_ANSI_C == 8
VK_ANSI_V == 9
VK_ANSI_J == 38
VK_ANSI_K == 40
VK_ANSI_L == 37
VK_ANSI_U == 32
VK_ANSI_I == 34
VK_ANSI_O == 31
VK_ESCAPE == 53

(***************************************************************************)
(* Keys (keys.rs).                                                         *)
(***************************************************************************)
SlotId == {"J", "K", "L", "U", "I", "O"}

SlotOrder == <<"J", "K", "L", "U", "I", "O">>

Min(a, b) == IF a < b THEN a ELSE b

Max(a, b) == IF a < b THEN b ELSE a

PressedSlots == {SlotOrder[i] : i \in 1..Min(MaxSlotKeys, Len(SlotOrder))}

KeySlot(s) == [kind |-> "Slot", slot |-> s]

KeyEscape == [kind |-> "Escape"]

KeyC == [kind |-> "C"]

KeyV == [kind |-> "V"]

KeyOther(c) == [kind |-> "Other", code |-> c]

keycode_to_key(keycode) ==
    CASE keycode = VK_ANSI_J -> KeySlot("J")
      [] keycode = VK_ANSI_K -> KeySlot("K")
      [] keycode = VK_ANSI_L -> KeySlot("L")
      [] keycode = VK_ANSI_U -> KeySlot("U")
      [] keycode = VK_ANSI_I -> KeySlot("I")
      [] keycode = VK_ANSI_O -> KeySlot("O")
      [] keycode = VK_ESCAPE -> KeyEscape
      [] keycode = VK_ANSI_C -> KeyC
      [] keycode = VK_ANSI_V -> KeyV
      [] OTHER -> KeyOther(keycode % 65536)

SlotKeycode(s) ==
    CASE s = "J" -> VK_ANSI_J
      [] s = "K" -> VK_ANSI_K
      [] s = "L" -> VK_ANSI_L
      [] s = "U" -> VK_ANSI_U
      [] s = "I" -> VK_ANSI_I
      [] s = "O" -> VK_ANSI_O

\* (flags & CMD_MASK) != 0
HasCmd(flags) == (flags \div CMD_MASK) % 2 = 1

(***************************************************************************)
(* Text: a string is a sequence of characters; trim() strips white space   *)
(* at both ends.                                                           *)
(***************************************************************************)
None == <<>>

Some(x) == <<x>>

IsWs(c) == c = " "

RECURSIVE TrimStart(_)
TrimStart(s) ==
    IF Len(s) = 0 THEN s
    ELSE IF IsWs(s[1]) THEN TrimStart(Tail(s)) ELSE s

RECURSIVE TrimEnd(_)
TrimEnd(s) ==
    IF Len(s) = 0 THEN s
    ELSE IF IsWs(s[Len(s)]) THEN TrimEnd(SubSeq(s, 1, Len(s) - 1)) ELSE s

Trim(s) == TrimEnd(TrimStart(s))

\* what the user (or the foreground application) puts on the clipboard
CopyTexts == {<<" ">>, <<" ", "a">>}

ClipVals == {None} \cup {Some(x) : x \in CopyTexts}


(***************************************************************************)
(* Events (state_machine.rs Event; ChooserChosen and ChooserCancel are     *)
(* built by ipc/udp.rs parse_response).                                    *)
(***************************************************************************)
EvKeyDown(key, flags) == [type |-> "KeyDown", key |-> key, flags |-> flags]

EvKeyUp(key, flags) == [type |-> "KeyUp", key |-> key, flags |-> flags]

EvFlagsChanged(flags) == [type |-> "FlagsChanged", flags |-> flags]

EvCmdVTrigger == [type |-> "CmdVTrigger"]

EvTimeout(t) == [type |-> "Timeout", token |-> t]

EvQuit == [type |-> "Quit"]

EvChooserChosen(t, n) == [type |-> "ChooserChosen", token |-> t, slot_num |-> n]

EvChooserCancel(t, r) == [type |-> "ChooserCancel", token |-> t, reason |-> r]

(***************************************************************************)
(* State (state_machine.rs State).                                         *)
(***************************************************************************)
StIdle == [mode |-> "Idle"]

StCopyArmed(d, t) == [mode |-> "CopyArmed", deadline |-> d, token |-> t]

StCopySelecting(d, t) == [mode |-> "CopySelecting", deadline |-> d, token |-> t]

StPasteSelecting(d, t) == [mode |-> "PasteSelecting", deadline |-> d, token |-> t]

VARIABLES
    state,        \* run: state
    cmd_down,     \* run: cmd_down
    next_token,   \* run: next_token
    mode,         \* the shared AtomicU8
    slots,        \* SlotStorage.slots: SlotId -> Option of text
    running,      \* the state machine loop has not left on Quit
    queue,        \* the mpsc channel
    timers,       \* timeout threads that have not sent yet
    now,          \* Instant::now()
    clipboard,    \* the OS clipboard
    restores,     \* clipboard restore threads that have not run yet
    quit_sent,    \* the Ctrl+C handler has run
    armed,        \* the tokens the armings have used, in order
    out,          \* calls made by the step just taken
    last,         \* the event handled by the step just taken, and the state before
    callback,     \* the tap callback that has loaded the mode and not returned
    gates,        \* for the tap's events in the channel: the mode their callback read
    hid,          \* key events posted by paste_from_slot that the tap has not seen
                  \* yet, each with the mode published when it was posted for as
                  \* long as its callback may still load that mode
    contrary,     \* keystrokes handled since the mode last changed whose callback
                  \* decided otherwise than it would in the state that handled them
    current_token,    \* clip-ui: CURRENT_TOKEN
    chooser_visible,  \* clip-ui: the window "chooser" is shown
    main_thread,      \* clip-ui: closures handed to run_on_main_thread, not yet run
    hides_seen,       \* clip-ui: the tokens of the hide messages received so far
    main,             \* run_macos: where it stands, what it has started, and
                      \* whether the store of run writes through to the table
    wire,             \* one show message on its way from send_show to the
                      \* chooser's listener
    probe             \* one call of read_text_with_retry and what it saw

tapvars == <<callback, gates, contrary, hid>>

uivars == <<current_token, chooser_visible, main_thread, hides_seen>>

vars == <<state, cmd_down, next_token, mode, slots, running, queue, timers, now,
          clipboard, restores, quit_sent, armed, out, last, callback, gates,
          contrary, hid, current_token, chooser_visible, main_thread, hides_seen,
          main, wire, probe>>

hostvars == <<main>>

fnvars == <<wire, probe>>

NoWire == [pc |-> "none"]

NoProbe == [pc |-> "none"]

NoLast == [event |-> [type |-> "None"]]

(***************************************************************************)
(* Clipboard bridge (macos/clipboard.rs, macos/paste.rs).  reads[i] is     *)
(* what the OS clipboard holds at the i-th attempt.                        *)
(***************************************************************************)
\* ctx.get_contents() then trim(): Some(trimmed) when non-empty
ReadTrimmed(clip) ==
    IF clip # None /\ Len(Trim(clip[1])) > 0 THEN Some(Trim(clip[1])) ELSE None

RECURSIVE RetryLoop(_, _, _)
RetryLoop(attempt, tries, reads) ==
    IF attempt >= tries THEN [result |-> None, n |-> tries]
    ELSE IF ReadTrimmed(reads[attempt + 1]) # None
         THEN [result |-> ReadTrimmed(reads[attempt + 1]), n |-> attempt + 1]
         ELSE RetryLoop(attempt + 1, tries, reads)

\* A Duration is its count of milliseconds (as_millis, a u128) in three
\* limbs of 16 bits, the lowest first.
LIMB == 65536

from_millis(ms) == << ms % LIMB, (ms \div LIMB) % LIMB, 0 >>

\* the quotient of the count by k, for k below 2^15
DivLimbs(d, k) ==
    LET n2 == (d[3] % k) * LIMB + d[2]
        n1 == (n2 % k) * LIMB + d[1]
    IN << n1 \div k, n2 \div k, d[3] \div k >>

\* .max(1)
MaxOne(q) == IF q = <<0, 0, 0>> THEN <<1, 0, 0>> ELSE q

\* as u32: the low 32 bits
AsU32(q) == << q[1], q[2] >>

\* .min(MAX_TRIES) on the u32
MinTries(u) == IF u[2] > 0 THEN MAX_TRIES ELSE Min(u[1], MAX_TRIES)

\* (max_wait.as_millis() / RETRY_INTERVAL.as_millis()).max(1) as u32
TotalTries(max_wait) == AsU32(MaxOne(DivLimbs(max_wait, RETRY_INTERVAL)))

read_text_with_retry(max_wait, reads) ==
    LET total_tries == TotalTries(max_wait)
        tries == MinTries(total_tries)
    IN RetryLoop(0, tries, reads)

read_text(clip, ok) == IF ok THEN ReadTrimmed(clip) ELSE None

\* the four events of post_cmd_v_realistic, as raw (type, keycode, flags)
CMD_KEYCODE == 55

V_KEYCODE == 9

CmdVEvents ==
    << [type |-> "KeyDown", keycode |-> CMD_KEYCODE, flags |-> CMD_MASK],
       [type |-> "KeyDown", keycode |-> V_KEYCODE, flags |-> CMD_MASK],
       [type |-> "KeyUp", keycode |-> V_KEYCODE, flags |-> CMD_MASK],
       [type |-> "KeyUp", keycode |-> CMD_KEYCODE, flags |-> 0] >>

\* io.read_ok, io.write_ok: the clipboard calls succeed; io.posted: how many of
\* the four key events were created and posted (4: post_cmd_v_realistic is Ok)
RESTORE_DELAY_MS == 250

\* the calls paste_from_slot makes, in the order it makes them
CallRead(backup) == [call |-> "read_text", result |-> backup]

CallWrite(text, ok) == [call |-> "write_text", text |-> text, ok |-> ok]

CallPost(e) == [call |-> "post", event |-> e]

CallSpawnRestore(backup) ==
    [call |-> "spawn_restore", delay |-> RESTORE_DELAY_MS, backup |-> backup]

Posts(n) == [i \in 1..n |-> CallPost(CmdVEvents[i])]

\* paste_from_slot starting the restore thread before it posts the keys
paste_from_slot_RestoreFirst(slot_text, clip, io) ==
    LET backup == read_text(clip, io.read_ok) IN
    IF ~io.write_ok
    THEN [clipboard |-> clip, posted |-> <<>>, restore |-> <<>>,
          calls |-> << CallRead(backup), CallWrite(slot_text, FALSE) >>]
    ELSE [clipboard |-> Some(slot_text),
          posted |-> SubSeq(CmdVEvents, 1, io.posted), restore |-> <<backup>>,
          calls |-> << CallRead(backup), CallWrite(slot_text, TRUE),
                       CallSpawnRestore(backup) >> \o Posts(io.posted)]

paste_from_slot(slot_text, clip, io) ==
    LET backup == read_text(clip, io.read_ok) IN
    IF ~io.write_ok
    THEN [clipboard |-> clip, posted |-> <<>>, restore |-> <<>>,
          calls |-> << CallRead(backup), CallWrite(slot_text, FALSE) >>]
    ELSE IF io.posted < Len(CmdVEvents)
    THEN [clipboard |-> Some(slot_text),
          posted |-> SubSeq(CmdVEvents, 1, io.posted), restore |-> <<>>,
          calls |-> << CallRead(backup), CallWrite(slot_text, TRUE) >>
                        \o Posts(io.posted)]
    ELSE [clipboard |-> Some(slot_text), posted |-> CmdVEvents,
          restore |-> <<backup>>,
          calls |-> << CallRead(backup), CallWrite(slot_text, TRUE) >>
                        \o Posts(Len(CmdVEvents))
                        \o << CallSpawnRestore(backup) >>]

(***************************************************************************)
(* Slot storage (state_machine.rs SlotStorage).                            *)
(***************************************************************************)
EmptySlots == [s \in SlotId |-> None]

\* save that keeps what a slot already holds
save_KeepFirst(sl, slot, content) ==
    IF sl[slot] = None THEN [sl EXCEPT ![slot] = Some(content)] ELSE sl

\* save that empties every other slot
save_Alone(sl, slot, content) ==
    [s \in SlotId |-> IF s = slot THEN Some(content) ELSE None]

save(sl, slot, content) == [sl EXCEPT ![slot] = Some(content)]

get(sl, slot) == sl[slot]

is_empty(sl, slot) ==
    IF get(sl, slot) = None THEN TRUE ELSE Len(get(sl, slot)[1]) = 0

\* save_slot_from_clipboard storing the empty text when nothing was read
save_slot_from_clipboard_SaveEmpty(w, slot, env) ==
    LET text == read_text_with_retry(from_millis(SAVE_MAX_WAIT), env.reads) IN
    [w EXCEPT !.slots = save(w.slots, slot,
                             IF text.result # None THEN text.result[1] ELSE <<>>),
              !.clipboard = env.reads[text.n],
              !.out = w.out \o << [op |-> "read_text_with_retry",
                                   seen |-> SubSeq(env.reads, 1, text.n),
                                   result |-> text.result] >>]

(***************************************************************************)
(* Handlers.  w is what a handler may change: state, next_token, slots,    *)
(* clipboard, the threads it spawns (spawn, restore) and the calls it      *)
(* makes (out).  env is what it reads from outside: env.now, env.reads,    *)
(* env.io, and env.persistence, env.upsert_ok: the store holds a           *)
(* connection, and upsert_slot returns Ok.                                 *)
(***************************************************************************)
\* SlotStorage::save beyond the insert: the write-through, when there is a
\* connection
WriteThrough(slot, content, env) ==
    IF env.persistence
    THEN << [op |-> "upsert_slot", slot |-> slot, text |-> content,
             ok |-> env.upsert_ok] >>
    ELSE <<>>

\* save_slot_from_clipboard with a save that takes the insert back when the
\* write-through fails
save_slot_from_clipboard_RollBack(w, slot, env) ==
    LET text == read_text_with_retry(from_millis(SAVE_MAX_WAIT), env.reads) IN
    IF text.result # None
    THEN [w EXCEPT !.slots = IF env.persistence /\ ~env.upsert_ok THEN w.slots
                             ELSE save(w.slots, slot, text.result[1]),
                   !.clipboard = env.reads[text.n],
                   !.out = w.out \o << [op |-> "read_text_with_retry",
                                        seen |-> SubSeq(env.reads, 1, text.n),
                                        result |-> text.result],
                                       [op |-> "save", slot |-> slot,
                                        text |-> text.result[1]] >>
                                 \o WriteThrough(slot, text.result[1], env)]
    ELSE [w EXCEPT !.clipboard = env.reads[text.n],
                   !.out = w.out \o << [op |-> "read_text_with_retry",
                                        seen |-> SubSeq(env.reads, 1, text.n),
                                        result |-> text.result] >>]

\* save_slot_from_clipboard reading the clipboard a second time before it saves
save_slot_from_clipboard_ReadAgain(w, slot, env) ==
    LET text == read_text_with_retry(from_millis(SAVE_MAX_WAIT), env.reads)
        rd == [op |-> "read_text_with_retry",
               seen |-> SubSeq(env.reads, 1, text.n), result |-> text.result]
    IN
    IF text.result # None
    THEN [w EXCEPT !.slots = save(w.slots, slot, text.result[1]),
                   !.clipboard = env.reads[text.n],
                   !.out = w.out \o << rd, rd,
                                       [op |-> "save", slot |-> slot,
                                        text |-> text.result[1]] >>
                                 \o WriteThrough(slot, text.result[1], env)]
    ELSE [w EXCEPT !.clipboard = env.reads[text.n],
                   !.out = w.out \o << rd, rd >>]

save_slot_from_clipboard(w, slot, env) ==
    LET text == read_text_with_retry(from_millis(SAVE_MAX_WAIT), env.reads) IN
    IF text.result # None
    THEN [w EXCEPT !.slots = save(w.slots, slot, text.result[1]),
                   !.clipboard = env.reads[text.n],
                   !.out = w.out \o << [op |-> "read_text_with_retry",
                                        seen |-> SubSeq(env.reads, 1, text.n),
                                        result |-> text.result],
                                       [op |-> "save", slot |-> slot,
                                        text |-> text.result[1]] >>
                                 \o WriteThrough(slot, text.result[1], env)]
    ELSE [w EXCEPT !.clipboard = env.reads[text.n],
                   !.out = w.out \o << [op |-> "read_text_with_retry",
                                        seen |-> SubSeq(env.reads, 1, text.n),
                                        result |-> text.result] >>]

\* Arm with the increment of next_token lost
Arm_NoIncrement(kind, w, env) ==
    LET token == w.next_token + 1
        deadline == env.now + SLOT_SELECT_WINDOW
    IN [w EXCEPT !.spawn = {[deadline |-> deadline, token |-> token]},
                 !.state = [mode |-> kind, deadline |-> deadline, token |-> token]]

\* Arm without spawn_timeout
Arm_NoTimeout(kind, w, env) ==
    LET token == w.next_token + 1
        deadline == env.now + SLOT_SELECT_WINDOW
    IN [w EXCEPT !.next_token = token,
                 !.state = [mode |-> kind, deadline |-> deadline, token |-> token]]

\* *next_token += 1; deadline = now + window; spawn_timeout; State::<kind>
Arm(kind, w, env) ==
    LET token == w.next_token + 1
        deadline == env.now + SLOT_SELECT_WINDOW
    IN [w EXCEPT !.next_token = token,
                 !.spawn = {[deadline |-> deadline, token |-> token]},
                 !.state = [mode |-> kind, deadline |-> deadline, token |-> token]]

\* the Timeout arms without their token guard
TimeoutMatches_AnyToken(event, token) == event.type = "Timeout"

\* the guard of the Timeout arms: Event::Timeout(t) if t == token
TimeoutMatches(event, token) == event.type = "Timeout" /\ event.token = token

\* a remaining time that never runs out
RemainingIsZero_Never(deadline, t) == FALSE

\* deadline.saturating_duration_since(Instant::now()).is_zero()
RemainingIsZero(deadline, t) == Max(deadline - t, 0) = 0

\* handle_idle deaf to the save hotkey
handle_idle_IgnoreCopy(event, w, env) ==
    IF event.type = "CmdVTrigger"
    THEN Arm("PasteSelecting", w, env)
    ELSE IF event.type = "KeyDown" /\ event.key = KeyV /\ HasCmd(event.flags)
    THEN Arm("PasteSelecting", w, env)
    ELSE [w EXCEPT !.state = StIdle]

\* handle_idle opening the paste chooser on a slot key
handle_idle_SlotArms(event, w, env) ==
    IF event.type = "KeyDown" /\ event.key = KeyC /\ HasCmd(event.flags)
    THEN Arm("CopyArmed", w, env)
    ELSE IF event.type = "CmdVTrigger"
    THEN Arm("PasteSelecting", w, env)
    ELSE IF event.type = "KeyDown" /\ event.key = KeyV /\ HasCmd(event.flags)
    THEN Arm("PasteSelecting", w, env)
    ELSE IF event.type = "KeyDown" /\ event.key.kind = "Slot"
    THEN [w EXCEPT !.state = StPasteSelecting(env.now + SLOT_SELECT_WINDOW,
                                              w.next_token)]
    ELSE [w EXCEPT !.state = StIdle]

handle_idle(event, w, env) ==
    IF event.type = "KeyDown" /\ event.key = KeyC /\ HasCmd(event.flags)
    THEN Arm("CopyArmed", w, env)
    ELSE IF event.type = "CmdVTrigger"
    THEN Arm("PasteSelecting", w, env)
    ELSE IF event.type = "KeyDown" /\ event.key = KeyV /\ HasCmd(event.flags)
    THEN Arm("PasteSelecting", w, env)
    ELSE [w EXCEPT !.state = StIdle]

handle_copy_armed(event, deadline, token, cmd, w, env) ==
    IF TimeoutMatches(event, token)
    THEN [w EXCEPT !.state = StIdle]
    ELSE IF event.type = "KeyDown" /\ event.key = KeyEscape
    THEN [w EXCEPT !.state = StIdle]
    ELSE IF event.type = "KeyDown"
    THEN IF ~cmd
         THEN IF RemainingIsZero(deadline, env.now)
              THEN [w EXCEPT !.state = StIdle]
              ELSE IF event.key.kind = "Slot"
                   THEN [save_slot_from_clipboard(w, event.key.slot, env)
                            EXCEPT !.state = StIdle]
                   ELSE [w EXCEPT !.state = StIdle]
         ELSE IF event.key.kind = "Slot"
              THEN [w EXCEPT !.state = StCopyArmed(deadline, token)]
              ELSE IF event.key.kind = "Escape"
              THEN [w EXCEPT !.state = StIdle]
              ELSE IF event.key.kind \notin {"C", "V"}
              THEN [w EXCEPT !.state = StIdle]
              ELSE [w EXCEPT !.state = StCopyArmed(deadline, token)]
    ELSE IF event.type = "FlagsChanged"
    THEN IF ~HasCmd(event.flags) /\ cmd
         THEN IF RemainingIsZero(deadline, env.now)
              THEN [w EXCEPT !.state = StIdle]
              ELSE [w EXCEPT !.state = StCopySelecting(deadline, token)]
         ELSE [w EXCEPT !.state = StCopyArmed(deadline, token)]
    ELSE [w EXCEPT !.state = StCopyArmed(deadline, token)]

handle_copy_selecting(event, deadline, token, w, env) ==
    IF TimeoutMatches(event, token)
    THEN [w EXCEPT !.state = StIdle]
    ELSE IF event.type = "KeyDown" /\ event.key = KeyEscape
    THEN [w EXCEPT !.state = StIdle]
    ELSE IF event.type = "KeyDown" /\ event.key.kind = "Slot"
    THEN IF env.now < deadline
         THEN [save_slot_from_clipboard(w, event.key.slot, env)
                  EXCEPT !.state = StIdle]
         ELSE [w EXCEPT !.state = StIdle]
    ELSE IF event.type = "KeyDown"
    THEN [w EXCEPT !.state = StIdle]
    ELSE [w EXCEPT !.state = StCopySelecting(deadline, token)]

handle_paste_selecting(event, deadline, token, w, env) ==
    IF TimeoutMatches(event, token)
    THEN [w EXCEPT !.state = StIdle]
    ELSE IF event.type = "KeyDown" /\ event.key = KeyEscape
    THEN [w EXCEPT !.state = StIdle]
    ELSE IF event.type = "KeyDown" /\ event.key.kind = "Slot"
    THEN IF env.now < deadline
         THEN IF is_empty(w.slots, event.key.slot)
              THEN [w EXCEPT !.state = StIdle]
              ELSE LET content == get(w.slots, event.key.slot)[1]
                       p == paste_from_slot(content, w.clipboard, env.io)
                   IN [w EXCEPT !.state = StIdle,
                                !.clipboard = p.clipboard,
                                !.restore = p.restore,
                                !.out = w.out \o << [op |-> "paste_from_slot",
                                                     text |-> content,
                                                     posted |-> p.posted,
                                                     calls |-> p.calls] >>]
         ELSE [w EXCEPT !.state = StIdle]
    ELSE IF event.type = "KeyDown"
    THEN [w EXCEPT !.state = StIdle]
    ELSE [w EXCEPT !.state = StPasteSelecting(deadline, token)]

\* set_mode_for_state storing the mode of Idle whatever the state
set_mode_for_state_Idle(st) == MODE_IDLE

set_mode_for_state(st) ==
    CASE st.mode = "Idle" -> MODE_IDLE
      [] st.mode = "CopyArmed" -> MODE_COPY_ARMED
      [] st.mode = "CopySelecting" -> MODE_COPY_SELECTING
      [] st.mode = "PasteSelecting" -> MODE_PASTE_SELECTING

\* the match on state in run, with a paste trigger arming again while a paste
\* chooser is open
Dispatch_Rearm(st, event, prev_cmd_down, cmd, w, env) ==
    CASE st.mode = "Idle" -> handle_idle(event, w, env)
      [] st.mode = "CopyArmed" ->
            handle_copy_armed(event, st.deadline, st.token, prev_cmd_down, w, env)
      [] st.mode = "CopySelecting" ->
            handle_copy_selecting(event, st.deadline, st.token, w, env)
      [] st.mode = "PasteSelecting" ->
            IF event.type = "CmdVTrigger"
            THEN handle_idle(event, w, env)
            ELSE handle_paste_selecting(event, st.deadline, st.token, w, env)

\* the match on state in run
Dispatch(st, event, prev_cmd_down, cmd, w, env) ==
    CASE st.mode = "Idle" -> handle_idle(event, w, env)
      [] st.mode = "CopyArmed" ->
            handle_copy_armed(event, st.deadline, st.token, prev_cmd_down, w, env)
      [] st.mode = "CopySelecting" ->
            handle_copy_selecting(event, st.deadline, st.token, w, env)
      [] st.mode = "PasteSelecting" ->
            handle_paste_selecting(event, st.deadline, st.token, w, env)

(***************************************************************************)
(* Event tap (macos/event_tap.rs).  A raw event is (type, keycode, flags). *)
(***************************************************************************)
convert_event(event_type, keycode, flags) ==
    CASE event_type = "KeyDown" -> Some(EvKeyDown(keycode_to_key(keycode), flags))
      [] event_type = "KeyUp" -> Some(EvKeyUp(keycode_to_key(keycode), flags))
      [] event_type = "FlagsChanged" -> Some(EvFlagsChanged(flags))
      [] OTHER -> None

\* the test without Escape
IsSlotOrEscape_SlotOnly(key) == key.kind = "Slot"

IsSlotOrEscape(key) == key.kind = "Slot" \/ key = KeyEscape

\* the gate swallowing every key while a chooser is selecting
convert_event_and_swallow_DropAllKeys(event_type, keycode, flags, m) ==
    LET ev == convert_event(event_type, keycode, flags) IN
    IF event_type = "KeyDown"
    THEN IF m = MODE_IDLE /\ keycode_to_key(keycode) = KeyV /\ HasCmd(flags)
         THEN [ev |-> Some(EvCmdVTrigger), swallow |-> TRUE]
         ELSE [ev |-> ev, swallow |-> m \in {MODE_COPY_SELECTING, MODE_PASTE_SELECTING}]
    ELSE IF event_type = "KeyUp"
    THEN IF m \in {MODE_COPY_SELECTING, MODE_PASTE_SELECTING}
         THEN [ev |-> None, swallow |-> TRUE]
         ELSE [ev |-> ev, swallow |-> FALSE]
    ELSE [ev |-> ev, swallow |-> FALSE]

\* the gate forwarding the raw key-down of Cmd+V in Idle, beside swallowing it
convert_event_and_swallow_RawCmdV(event_type, keycode, flags, m) ==
    LET key == keycode_to_key(keycode)
        ev == convert_event(event_type, keycode, flags)
    IN
    IF event_type = "KeyDown"
    THEN [ev |-> ev,
          swallow |-> \/ m = MODE_IDLE /\ key = KeyV /\ HasCmd(flags)
                      \/ /\ m \in {MODE_COPY_SELECTING, MODE_PASTE_SELECTING}
                         /\ IsSlotOrEscape(key)]
    ELSE IF event_type = "KeyUp"
    THEN IF m = MODE_PASTE_SELECTING /\ key = KeyV /\ HasCmd(flags)
         THEN [ev |-> None, swallow |-> TRUE]
         ELSE IF m \in {MODE_COPY_SELECTING, MODE_PASTE_SELECTING}
                 /\ IsSlotOrEscape(key)
         THEN [ev |-> None, swallow |-> TRUE]
         ELSE [ev |-> ev, swallow |-> FALSE]
    ELSE [ev |-> ev, swallow |-> FALSE]

\* [ev, swallow]; a None return of the function is [ev |-> None, swallow |-> FALSE]:
\* the callback sends nothing and keeps the event
convert_event_and_swallow(event_type, keycode, flags, m) ==
    LET key == keycode_to_key(keycode)
        ev == convert_event(event_type, keycode, flags)
    IN
    IF event_type \in {"TapDisabledByTimeout", "TapDisabledByUserInput"}
    THEN [ev |-> None, swallow |-> FALSE]
    ELSE IF event_type = "KeyDown"
    THEN IF m = MODE_IDLE /\ key = KeyV /\ HasCmd(flags)
         THEN [ev |-> Some(EvCmdVTrigger), swallow |-> TRUE]
         ELSE IF m \in {MODE_COPY_SELECTING, MODE_PASTE_SELECTING}
                 /\ IsSlotOrEscape(key)
         THEN [ev |-> ev, swallow |-> TRUE]
         ELSE [ev |-> ev, swallow |-> FALSE]
    ELSE IF event_type = "KeyUp"
    THEN IF m = MODE_PASTE_SELECTING /\ key = KeyV /\ HasCmd(flags)
         THEN [ev |-> None, swallow |-> TRUE]
         ELSE IF m \in {MODE_COPY_SELECTING, MODE_PASTE_SELECTING}
                 /\ IsSlotOrEscape(key)
         THEN [ev |-> None, swallow |-> TRUE]
         ELSE [ev |-> ev, swallow |-> FALSE]
    ELSE IF event_type = "FlagsChanged"
    THEN [ev |-> ev, swallow |-> FALSE]
    ELSE [ev |-> None, swallow |-> FALSE]

(***************************************************************************)
(* Inbound transport (ipc/udp.rs).  A datagram is a sequence of lines.  A  *)
(* line has its length in bytes, utf8 (its bytes decode), valid (it is a   *)
(* JSON value) and, when valid, obj, the object; a field value is JStr(s)  *)
(* or JNum(n).                                                             *)
(***************************************************************************)
\* let mut buf = [0u8; 1024]
BUF_LEN == 1024

JStr(x) == [t |-> "str", v |-> x]

JNum(n) == [t |-> "num", v |-> n]

Line(obj) == [valid |-> TRUE, utf8 |-> TRUE, bytes |-> 40, obj |-> obj]

\* text of n bytes that is not a JSON value
NotJson(n) == [valid |-> FALSE, utf8 |-> TRUE, bytes |-> n]

\* bytes that are not UTF-8
NotUtf8 == [valid |-> FALSE, utf8 |-> FALSE, bytes |-> 40]

HasStr(v, f) == f \in DOMAIN v /\ v[f].t = "str"

\* as_u64: a non-negative integer
HasU64(v, f) == f \in DOMAIN v /\ v[f].t = "num" /\ v[f].v >= 0

parse_response(line) ==
    IF ~line.valid THEN None
    ELSE LET v == line.obj IN
    IF ~HasStr(v, "type") THEN None
    ELSE IF ~HasStr(v, "token") THEN None
    ELSE IF v["type"].v = "chosen"
    THEN IF ~HasU64(v, "slot") THEN None
         ELSE LET slot == v["slot"].v % 256 IN
              IF slot \in 1..6
              THEN Some(EvChooserChosen(v["token"].v, slot))
              ELSE None
    ELSE IF v["type"].v = "cancel"
    THEN LET reason == IF HasStr(v, "reason") THEN v["reason"].v ELSE "timeout"
         IN Some(EvChooserCancel(v["token"].v, reason))
    ELSE None

\* ParseLines giving up at the first line that yields no event
RECURSIVE ParseLines_StopAtDropped(_)
ParseLines_StopAtDropped(lines) ==
    IF lines = <<>> THEN <<>>
    ELSE LET ev == parse_response(Head(lines)) IN
         IF ev = None THEN <<>>
         ELSE ev \o ParseLines_StopAtDropped(Tail(lines))

\* for line in s.lines(): send what parse_response yields
RECURSIVE ParseLines(_)
ParseLines(lines) ==
    IF lines = <<>> THEN <<>>
    ELSE parse_response(Head(lines)) \o ParseLines(Tail(lines))

\* recv_from keeps the first room bytes of the datagram: the lines that fit,
\* then what fits of the next one, which is then no JSON value any more
RECURSIVE Truncate(_, _)
Truncate(lines, room) ==
    IF lines = <<>> \/ room <= 0 THEN <<>>
    ELSE LET l == Head(lines) IN
         IF l.bytes <= room
         THEN <<l>> \o Truncate(Tail(lines), room - l.bytes - 1)
         ELSE << [valid |-> FALSE, utf8 |-> l.utf8, bytes |-> room] >>

\* one turn of the listener's loop: what it sends for a datagram
Listener(dg) ==
    LET got == Truncate(dg, BUF_LEN) IN
    IF \E i \in 1..Len(got) : ~got[i].utf8 THEN <<>>
    ELSE ParseLines(got)

(***************************************************************************)
(* What the environment offers.                                            *)
(***************************************************************************)
\* the raw events the keyboard produces in the model: (type, keycode, flags);
\* keycode 0 (the A key) stands for every key that keycode_to_key maps to Other
Raw(ty, kc, fl) == [type |-> ty, keycode |-> kc, flags |-> fl]

RawEvents ==
    {Raw("KeyDown", VK_ANSI_C, CMD_MASK), Raw("KeyDown", VK_ANSI_V, CMD_MASK),
     Raw("KeyDown", VK_ESCAPE, 0), Raw("KeyDown", 0, 0),
     Raw("KeyUp", VK_ANSI_V, CMD_MASK),
     Raw("FlagsChanged", CMD_KEYCODE, CMD_MASK), Raw("FlagsChanged", CMD_KEYCODE, 0)}
    \cup {Raw("KeyDown", SlotKeycode(s), 0) : s \in PressedSlots}

\* what the tap thread can send: whatever mode the state machine is in, the
\* callback may have read an older published mode, so every conversion of a
\* raw event, and the Cmd+V trigger, can arrive in every state
TapEvents == {convert_event(raw.type, raw.keycode, raw.flags)[1] : raw \in RawEvents}
                \cup {EvCmdVTrigger}

\* the token strings the chooser surface may echo
UdpTokens == {ToString(t) : t \in 1..MaxToken}

InboundLines ==
    {Line([type |-> JStr("chosen"), token |-> JStr(t), slot |-> JNum(n)]) :
        t \in UdpTokens, n \in 1..Min(MaxSlotKeys, 6)}
    \cup {Line([type |-> JStr("cancel"), token |-> JStr(t), reason |-> JStr("esc")]) :
            t \in UdpTokens}
    \cup {NotJson(40)}

Datagrams == UNION {[1..k -> InboundLines] : k \in 1..MaxLines}

Changes(s) == Cardinality({i \in 1..(Len(s) - 1) : s[i] # s[i + 1]})

ReadSeqs(clip) ==
    {s \in {<<clip>> \o r : r \in [1..(MAX_TRIES - 1) -> ClipVals]} :
        Changes(s) <= MaxClipChanges}

NoReads == [i \in 1..MAX_TRIES |-> None]

PasteIo == [read_ok : BOOLEAN, write_ok : BOOLEAN, posted : 0..Len(CmdVEvents)]

NoIo == [read_ok |-> TRUE, write_ok |-> TRUE, posted |-> Len(CmdVEvents)]

\* an event that arms a chooser when it is handled in Idle
ArmCapable(e) ==
    \/ e.type = "CmdVTrigger"
    \/ e.type = "KeyDown" /\ e.key \in {KeyC, KeyV} /\ HasCmd(e.flags)

PendingArms == Cardinality({i \in 1..Len(queue) : ArmCapable(queue[i])})

(***************************************************************************)
(* Init: the state after run's prologue.                                   *)
(***************************************************************************)
\* the store loaded from a table with the rows J: "b" and K: ""
LoadedSlots == [EmptySlots EXCEPT !["J"] = Some(<<"b">>), !["K"] = Some(<<>>)]

\* an empty table, or the rows above
InitSlots == {EmptySlots, LoadedSlots}

\* the first sentence of the message
PERMISSION_ERROR == "Accessibility permission not granted."

Threads == {"listener", "handler", "state", "tap"}

\* run_macos in its run loop, everything started; persistence: the store of
\* run holds the connection
MainUp(persistence) ==
    [pc |-> "run_loop", trusted |-> TRUE, seen |-> Some(TRUE), conn |-> persistence,
     persistence |-> persistence, started |-> Threads, run |-> "loop",
     result |-> None]

\* all of it but the clipboard of the system
InitAgent ==
    /\ state = StIdle
    /\ cmd_down = FALSE
    /\ next_token = 0
    /\ mode = MODE_IDLE
    /\ \/ main = MainUp(FALSE) /\ slots = EmptySlots
       \/ main = MainUp(TRUE) /\ slots \in InitSlots
    /\ running = TRUE
    /\ queue = <<>>
    /\ timers = {}
    /\ now = 0
    /\ restores = <<>>
    /\ quit_sent = FALSE
    /\ armed = <<>>
    /\ out = <<>>
    /\ last = NoLast
    /\ callback = None
    /\ gates = <<>>
    /\ contrary = 0
    /\ hid = <<>>
    /\ current_token = None
    /\ chooser_visible = FALSE
    /\ main_thread = << [op |-> "startup_show"] >>
    /\ hides_seen = {}

InitRun == InitAgent /\ clipboard \in ClipVals

Init == InitRun /\ wire = NoWire /\ probe = NoProbe

(***************************************************************************)
(* Actions.                                                                *)
(***************************************************************************)
\* the tap thread sends one event
TapSend ==
    \E ev \in TapEvents :
        /\ Len(queue) < MaxQueue
        /\ ArmCapable(ev) => next_token + PendingArms < MaxToken
        /\ queue' = Append(queue, ev)
        /\ out' = <<>>
        /\ last' = NoLast
        /\ UNCHANGED <<state, cmd_down, next_token, mode, slots, running, timers,
                       now, clipboard, restores, quit_sent, armed>>
        /\ UNCHANGED <<tapvars, uivars, hostvars, fnvars>>

\* the response listener receives the datagram dg; the channel is unbounded
\* in the code and holds cap events at most here
Receive(dg, cap) ==
    LET evs == Listener(dg) IN
    /\ Len(queue) + Len(evs) <= cap
    /\ queue' = queue \o evs
    /\ out' = << [op |-> "recv_from", dg |-> dg] >>
    /\ last' = NoLast
    /\ UNCHANGED <<state, cmd_down, next_token, mode, slots, running, timers,
                   now, clipboard, restores, quit_sent, armed>>
    /\ UNCHANGED <<tapvars, uivars, hostvars, fnvars>>

UdpReceive == \E dg \in Datagrams : Receive(dg, MaxQueue)

\* a timeout thread wakes at or after its deadline and sends
TimerFire ==
    \E tm \in timers :
        /\ tm.deadline <= now
        /\ Len(queue) < MaxQueue
        /\ queue' = Append(queue, EvTimeout(tm.token))
        /\ timers' = timers \ {tm}
        /\ out' = <<>>
        /\ last' = NoLast
        /\ UNCHANGED <<state, cmd_down, next_token, mode, slots, running, now,
                       clipboard, restores, quit_sent, armed>>
        /\ UNCHANGED <<tapvars, uivars, hostvars, fnvars>>

Tick ==
    /\ now < MaxTicks * SLOT_SELECT_WINDOW
    /\ now' = now + SLOT_SELECT_WINDOW
    /\ out' = <<>>
    /\ last' = NoLast
    /\ UNCHANGED <<state, cmd_down, next_token, mode, slots, running, queue, timers,
                   clipboard, restores, quit_sent, armed>>
    /\ UNCHANGED <<tapvars, uivars, hostvars, fnvars>>

SavesOn(st, event) ==
    st.mode \in {"CopyArmed", "CopySelecting"}
        /\ event.type = "KeyDown" /\ event.key.kind = "Slot"

PastesOn(st, event) ==
    st.mode = "PasteSelecting" /\ event.type = "KeyDown" /\ event.key.kind = "Slot"

\* the user copies something in the foreground application.  The agent looks
\* at the clipboard only in a handler that saves or pastes, so a copy is taken
\* when such a handler is about to run
UserCopy ==
    \E v \in ClipVals :
        /\ running
        /\ queue # <<>>
        /\ SavesOn(state, Head(queue)) \/ PastesOn(state, Head(queue))
        /\ v # clipboard
        /\ clipboard' = v
        /\ out' = <<>>
        /\ last' = NoLast
        /\ UNCHANGED <<state, cmd_down, next_token, mode, slots, running, queue,
                       timers, now, restores, quit_sent, armed>>
        /\ UNCHANGED <<tapvars, uivars, hostvars, fnvars>>

RemoveAt(s, i) == SubSeq(s, 1, i - 1) \o SubSeq(s, i + 1, Len(s))

\* the restore thread of paste_from_slot, after its delay
RestoreTask ==
    \E i \in 1..Len(restores), ok \in BOOLEAN :
        /\ clipboard' = IF restores[i] # None /\ ok THEN restores[i] ELSE clipboard
        /\ restores' = RemoveAt(restores, i)
        /\ out' = <<>>
        /\ last' = NoLast
        /\ UNCHANGED <<state, cmd_down, next_token, mode, slots, running, queue,
                       timers, now, quit_sent, armed>>
        /\ UNCHANGED <<tapvars, uivars, hostvars, fnvars>>

\* the Ctrl+C handler
CtrlC ==
    /\ ~quit_sent
    /\ Len(queue) < MaxQueue
    /\ queue' = Append(queue, EvQuit)
    /\ quit_sent' = TRUE
    /\ out' = <<>>
    /\ last' = NoLast
    /\ UNCHANGED <<state, cmd_down, next_token, mode, slots, running, timers, now,
                   clipboard, restores, armed>>
    /\ UNCHANGED <<tapvars, uivars, hostvars, fnvars>>

\* an event the tap sends
FromTap(e) == e.type \in {"KeyDown", "KeyUp", "FlagsChanged", "CmdVTrigger"}

\* the callback that read g.m swallowed, or kept, a keystroke that it would
\* have kept, or swallowed, had it read the mode of the state st
Contrary(g, st) ==
    /\ g.raw.type \in {"KeyDown", "KeyUp"}
    /\ g.swallow # convert_event_and_swallow(g.raw.type, g.raw.keycode, g.raw.flags,
                                             set_mode_for_state(st)).swallow

\* the key events that the calls of a step posted, m being the mode published
\* while the handler ran, before the store that ends it
Posted(o, m) ==
    IF \E i \in 1..Len(o) : o[i].op = "paste_from_slot"
    THEN LET p == o[CHOOSE i \in 1..Len(o) : o[i].op = "paste_from_slot"].posted
         IN [k \in 1..Len(p) |-> [raw |-> p[k], before |-> Some(m)]]
    ELSE <<>>

\* the loop with no arm for Quit
IsQuit_Never(event) == FALSE

\* Event::Quit => break
IsQuit(event) == event.type = "Quit"

\* one iteration of the loop in run.  gates holds an entry for each event a
\* callback of TapReturn sent, none for those of TapSend
Process ==
    /\ running
    /\ queue # <<>>
    /\ LET event == Head(queue) IN
       /\ queue' = Tail(queue)
       /\ last' = [event |-> event, state |-> state, cmd_down |-> cmd_down,
                   now |-> now,
                   gate |-> IF FromTap(event) /\ gates # <<>> THEN Some(Head(gates))
                                                               ELSE None]
       /\ IF IsQuit(event)
          THEN /\ running' = FALSE
               /\ out' = <<>>
               /\ UNCHANGED <<state, cmd_down, next_token, mode, slots, timers,
                              clipboard, restores, armed>>
          ELSE \E reads \in (IF SavesOn(state, event) THEN ReadSeqs(clipboard)
                                                      ELSE {NoReads}),
                  io \in (IF PastesOn(state, event) THEN PasteIo ELSE {NoIo}),
                  upsert_ok \in (IF SavesOn(state, event) /\ main.persistence
                                 THEN BOOLEAN ELSE {TRUE}) :
                LET prev_cmd_down == cmd_down
                    cmd == IF event.type = "FlagsChanged" THEN HasCmd(event.flags)
                                                          ELSE cmd_down
                    w == [state |-> state, next_token |-> next_token,
                          slots |-> slots, clipboard |-> clipboard,
                          spawn |-> {}, restore |-> <<>>, out |-> <<>>]
                    env == [now |-> now, reads |-> reads, io |-> io,
                            persistence |-> main.persistence,
                            upsert_ok |-> upsert_ok]
                    r == Dispatch(state, event, prev_cmd_down, cmd, w, env)
                IN /\ cmd_down' = cmd
                   /\ state' = r.state
                   /\ next_token' = r.next_token
                   /\ slots' = r.slots
                   /\ clipboard' = r.clipboard
                   /\ timers' = timers \cup r.spawn
                   /\ armed' = IF r.spawn = {} THEN armed
                                ELSE Append(armed, r.state.token)
                   /\ restores' = restores \o r.restore
                   /\ out' = r.out
                   /\ mode' = set_mode_for_state(r.state)
                   /\ running' = running
       /\ gates' = IF FromTap(event) /\ gates # <<>> THEN Tail(gates) ELSE gates
       /\ contrary' = IF mode' # mode THEN 0
                      ELSE IF FromTap(event) /\ gates # <<>>
                              /\ Contrary(Head(gates), state)
                      THEN contrary + 1
                      ELSE contrary
       /\ hid' = [i \in 1..Len(hid) |-> [hid[i] EXCEPT !.before = None]]
                    \o Posted(out', mode)
       /\ UNCHANGED <<now, quit_sent, callback, uivars, hostvars, fnvars>>

Next ==
    \/ TapSend
    \/ UdpReceive
    \/ TimerFire
    \/ Tick
    \/ UserCopy
    \/ RestoreTask
    \/ CtrlC
    \/ Process

Spec == Init /\ [][Next]_vars

(***************************************************************************)
(* Vocabulary of the properties.                                           *)
(***************************************************************************)
\* the step is an iteration of the loop (every other action clears last)
Handles == last' # NoLast

NonIdle(st) == st.mode # "Idle"

SaveChooserPending(st) == st.mode \in {"CopyArmed", "CopySelecting"}

PasteChooserActive(st) == st.mode = "PasteSelecting"

CarriesToken(e) == e.type \in {"Timeout", "ChooserChosen", "ChooserCancel"}

\* the event's token is the current token of st
TokenIs(e, st) ==
    /\ NonIdle(st)
    /\ \/ e.type = "Timeout" /\ e.token = st.token
       \/ e.type \in {"ChooserChosen", "ChooserCancel"} /\ e.token = ToString(st.token)

SentShow(o, m, t) ==
    {i \in 1..Len(o) : o[i] = [op |-> "send_show", mode |-> m, token |-> ToString(t)]}

SentHide(o, t) ==
    {i \in 1..Len(o) : o[i] = [op |-> "send_hide", token |-> ToString(t)]}

Transport(o) == {i \in 1..Len(o) : o[i].op \in {"send_show", "send_hide"}}

ClipboardCalls(o) ==
    {i \in 1..Len(o) : o[i].op \in {"read_text_with_retry", "paste_from_slot"}}

\* the step leaves the machine, the store, the published mode, the clipboard
\* and every thread as they were, and calls nothing
NoEffect ==
    /\ state' = state
    /\ next_token' = next_token
    /\ slots' = slots
    /\ mode' = mode
    /\ clipboard' = clipboard
    /\ timers' = timers
    /\ restores' = restores
    /\ out' = <<>>

(***************************************************************************)
(* C1: an event whose token is not the current token (a stale Timeout,     *)
(* Chosen or Cancel, or any of them while Idle) changes neither the mode,  *)
(* the token, the slots nor the published mode, and calls nothing.         *)
(***************************************************************************)
C1_StaleTokenIgnored ==
    [][(Handles /\ CarriesToken(last'.event) /\ ~TokenIs(last'.event, state))
            => NoEffect]_vars

\* a Timeout of the older token 1 was handled while token 2 was current
C1_Witness ==
    /\ last # NoLast
    /\ last.event.type = "Timeout"
    /\ NonIdle(last.state)
    /\ last.event.token < last.state.token
    /\ state = last.state

(***************************************************************************)
(* C2: outside Idle no step allocates a token, replaces the current token  *)
(* or starts a timer; the open chooser is the one armed last and has one   *)
(* timer at most.                                                          *)
(***************************************************************************)
C2_ArmOnlyFromIdle ==
    /\ [](NonIdle(state) =>
            /\ state.token = next_token
            /\ Cardinality({tm \in timers : tm.token = state.token}) <= 1)
    /\ [][NonIdle(state) =>
            /\ next_token' = next_token
            /\ timers' \subseteq timers
            /\ armed' = armed
            /\ NonIdle(state') => state'.token = state.token]_vars

\* a hotkey event was handled while a chooser was open, and the chooser stayed
C2_Witness ==
    /\ last # NoLast
    /\ NonIdle(last.state)
    /\ ArmCapable(last.event)
    /\ NonIdle(state)

(***************************************************************************)
(* C3: the tokens of the armings are 1, then strictly increasing, and a    *)
(* non-Idle state holds the token allocated last.                          *)
(***************************************************************************)
C3_TokensIncrease ==
    /\ \A i \in 1..Len(armed) : \A j \in 1..Len(armed) : i < j => armed[i] < armed[j]
    /\ Len(armed) > 0 => armed[1] = 1
    /\ NonIdle(state) => Len(armed) > 0 /\ state.token = armed[Len(armed)]
    /\ Len(armed) > 0 => armed[Len(armed)] = next_token

\* a second arming has taken place
C3_Witness == Len(armed) >= 2 /\ NonIdle(state)

(***************************************************************************)
(* C4: in SaveChooserPending with token T, Chosen{T, n} while the          *)
(* clipboard holds the non-empty text X stores exactly X in slot n, sends  *)
(* exactly one hide(T) and returns to Idle.                                *)
(***************************************************************************)
C4_ChosenSaves ==
    [][\A n \in 1..6 :
        (/\ Handles
         /\ SaveChooserPending(state)
         /\ last'.event = EvChooserChosen(ToString(state.token), n)
         /\ clipboard # None
         /\ Len(clipboard[1]) > 0)
        => /\ get(slots', SlotOrder[n]) = clipboard
           /\ Cardinality(SentHide(out', state.token)) = 1
           /\ state' = StIdle]_vars

(***************************************************************************)
(* C5: in PasteChooserActive with token T, Chosen{T, n} for a non-empty    *)
(* slot n hands that slot's content, and no other, to one paste, sends     *)
(* hide(T) and returns to Idle.                                            *)
(***************************************************************************)
C5_ChosenPastes ==
    [][\A n \in 1..6 :
        (/\ Handles
         /\ PasteChooserActive(state)
         /\ last'.event = EvChooserChosen(ToString(state.token), n)
         /\ ~is_empty(slots, SlotOrder[n]))
        => /\ Cardinality(ClipboardCalls(out')) = 1
           /\ \A i \in ClipboardCalls(out') :
                /\ out'[i].op = "paste_from_slot"
                /\ Some(out'[i].text) = get(slots, SlotOrder[n])
           /\ SentHide(out', state.token) # {}
           /\ state' = StIdle]_vars

(***************************************************************************)
(* C6: in PasteChooserActive with token T, Chosen{T, n} for an empty slot  *)
(* n reads and writes no clipboard, posts no key, and returns to Idle.     *)
(***************************************************************************)
C6_ChosenEmptySlot ==
    [][\A n \in 1..6 :
        (/\ Handles
         /\ PasteChooserActive(state)
         /\ last'.event = EvChooserChosen(ToString(state.token), n)
         /\ is_empty(slots, SlotOrder[n]))
        => /\ ClipboardCalls(out') = {}
           /\ clipboard' = clipboard
           /\ restores' = restores
           /\ state' = StIdle]_vars

(***************************************************************************)
(* C7: from Idle a save hotkey (a paste hotkey) allocates a new token,     *)
(* starts one timeout with it, sends one show(save) (show(paste)) with it  *)
(* and moves to SaveChooserPending (PasteChooserActive) holding it.        *)
(***************************************************************************)
SaveHotkey(e) == e.type = "KeyDown" /\ e.key = KeyC /\ HasCmd(e.flags)

PasteHotkey(e) ==
    \/ e.type = "CmdVTrigger"
    \/ e.type = "KeyDown" /\ e.key = KeyV /\ HasCmd(e.flags)

Armed(kind) ==
    /\ next_token' = next_token + 1
    /\ \E tm \in timers' :
        /\ tm.token = next_token'
        /\ tm \notin timers
        /\ timers' = timers \cup {tm}
    /\ Cardinality(Transport(out')) = 1
    /\ Cardinality(SentShow(out', kind, next_token')) = 1
    /\ NonIdle(state')
    /\ state'.token = next_token'

C7_HotkeyArms ==
    [][/\ (Handles /\ state = StIdle /\ SaveHotkey(last'.event))
            => Armed("save") /\ SaveChooserPending(state')
       /\ (Handles /\ state = StIdle /\ PasteHotkey(last'.event))
            => Armed("paste") /\ PasteChooserActive(state')]_vars

(***************************************************************************)
(* C8: outside Idle with token T, Timeout(T) moves to Idle, sends hide(T)  *)
(* and changes no slot; a Chosen{T, n} handled afterwards does nothing.    *)
(***************************************************************************)
C8_TimeoutResolves ==
    [][/\ (Handles /\ NonIdle(state) /\ last'.event = EvTimeout(state.token))
            => /\ state' = StIdle
               /\ SentHide(out', state.token) # {}
               /\ slots' = slots
       /\ (Handles /\ state = StIdle /\ last'.event.type = "ChooserChosen")
            => NoEffect]_vars

(***************************************************************************)
(* C9: in SaveChooserPending or PasteChooserActive with token T,           *)
(* Cancel{T, reason} sends hide(T) and moves to Idle; slots and clipboard  *)
(* stay as they were and no key is posted.                                 *)
(***************************************************************************)
C9_CancelResolves ==
    [][(/\ Handles
        /\ NonIdle(state)
        /\ last'.event.type = "ChooserCancel"
        /\ TokenIs(last'.event, state))
        => /\ SentHide(out', state.token) # {}
           /\ state' = StIdle
           /\ slots' = slots
           /\ clipboard' = clipboard
           /\ ClipboardCalls(out') = {}]_vars

(***************************************************************************)
(* C10: when a save is resolved for a slot and no read attempt yields      *)
(* text, every slot keeps what it had and the mode still returns to Idle.  *)
(***************************************************************************)
\* read_text_with_retry was called and every attempt it made saw no text
ReadsAllEmpty(o) ==
    \E i \in 1..Len(o) :
        /\ o[i].op = "read_text_with_retry"
        /\ \A k \in 1..Len(o[i].seen) : ReadTrimmed(o[i].seen[k]) = None

C10_SaveWithoutTextIsNoOp ==
    [][(Handles /\ ReadsAllEmpty(out')) => slots' = slots /\ state' = StIdle]_vars

\* a slot key resolved a save for a slot that held text, all six reads were
\* empty, one of them white space only
C10_Witness ==
    /\ last # NoLast
    /\ SavesOn(last.state, last.event)
    /\ ReadsAllEmpty(out)
    /\ Len(out) = 1
    /\ Len(out[1].seen) = MAX_TRIES
    /\ \E k \in 1..MAX_TRIES : out[1].seen[k] = Some(<<" ">>)
    /\ get(slots, last.event.key.slot) = Some(<<"b">>)
    /\ state = StIdle

(***************************************************************************)
(* The listener thread alone with the loop that consumes what it sends:    *)
(* single lines of every shape parse_response tells apart, and datagrams   *)
(* of up to MaxUdpLines lines.                                             *)
(***************************************************************************)
MaxUdpLines == 3

MaxUdpQueue == 3

WideLines ==
    {Line([type |-> JStr("chosen"), token |-> JStr("1"), slot |-> JNum(n)]) :
        n \in {0, 1, 2, 7, 257}}
    \cup {Line([type |-> JStr("cancel"), token |-> JStr("1"), reason |-> JStr("esc")]),
          Line([type |-> JStr("cancel"), token |-> JStr("1")]),
          Line([type |-> JStr("show"), token |-> JStr("1")]),
          Line([type |-> JNum(1), token |-> JStr("1"), slot |-> JNum(1)]),
          Line([type |-> JStr("chosen"), token |-> JStr("1")]),
          Line([type |-> JStr("chosen"), token |-> JStr("1"), slot |-> JStr("1")]),
          Line([type |-> JStr("chosen"), slot |-> JNum(1)]),
          Line([token |-> JStr("1"), slot |-> JNum(1)]),
          NotJson(40), NotJson(1000), NotUtf8}

\* the lines that longer datagrams are made of: two that are forwarded, two
\* that are dropped, bytes that do not decode, and a line that fills the buffer
CoreLines ==
    {Line([type |-> JStr("chosen"), token |-> JStr("1"), slot |-> JNum(2)]),
     Line([type |-> JStr("cancel"), token |-> JStr("1")]),
     Line([type |-> JStr("show"), token |-> JStr("1")]),
     NotJson(40), NotJson(1000), NotUtf8}

WideDatagrams ==
    {<<l>> : l \in WideLines}
        \cup UNION {[1..k -> CoreLines] : k \in 2..MaxUdpLines}

UdpReceiveWide == \E dg \in WideDatagrams : Receive(dg, MaxUdpQueue)

UdpInit == Init /\ slots = EmptySlots /\ clipboard = None

UdpNext ==
    \/ UdpReceiveWide
    \/ Process

UdpSpec == UdpInit /\ [][UdpNext]_vars

\* the step is a turn of the listener's loop, for the datagram Received
Receives == Len(out') = 1 /\ out'[1].op = "recv_from"

Received == out'[1].dg

\* the bytes of the datagram: its lines and the line feeds between them
RECURSIVE Bytes(_)
Bytes(dg) ==
    IF dg = <<>> THEN 0
    ELSE Head(dg).bytes + (IF Len(dg) > 1 THEN 1 ELSE 0) + Bytes(Tail(dg))

IsChosenLine(l) ==
    l.valid /\ HasStr(l.obj, "type") /\ l.obj["type"].v = "chosen"
            /\ HasStr(l.obj, "token") /\ HasU64(l.obj, "slot")

IsCancelLine(l) ==
    l.valid /\ HasStr(l.obj, "type") /\ l.obj["type"].v = "cancel"
            /\ HasStr(l.obj, "token")

\* not JSON, an unknown type, or a required field missing or of another kind
Malformed(l) ==
    \/ ~l.valid
    \/ ~HasStr(l.obj, "type")
    \/ l.obj["type"].v \notin {"chosen", "cancel"}
    \/ ~HasStr(l.obj, "token")
    \/ l.obj["type"].v = "chosen" /\ ~HasU64(l.obj, "slot")

WellFormed(l) ==
    \/ IsChosenLine(l) /\ l.obj["slot"].v \in 1..6
    \/ IsCancelLine(l)

\* the event a well-formed line stands for
Expected(l) ==
    IF IsChosenLine(l)
    THEN EvChooserChosen(l.obj["token"].v, l.obj["slot"].v)
    ELSE EvChooserCancel(l.obj["token"].v,
                         IF HasStr(l.obj, "reason") THEN l.obj["reason"].v
                                                     ELSE "timeout")

RECURSIVE ExpectedOf(_)
ExpectedOf(dg) ==
    IF dg = <<>> THEN <<>>
    ELSE (IF WellFormed(Head(dg)) THEN <<Expected(Head(dg))>> ELSE <<>>)
            \o ExpectedOf(Tail(dg))

\* the listener's turn touched nothing but the channel
OnlyQueueChanged ==
    UNCHANGED <<state, cmd_down, next_token, mode, slots, running, timers, now,
                clipboard, restores, quit_sent, armed, tapvars, uivars, hostvars, fnvars>>

(***************************************************************************)
(* C17: a chosen line is forwarded only when its slot number is in 1..6;   *)
(* a datagram whose lines are all chosen lines with another integer slot   *)
(* (0, 7, 257) forwards nothing.                                           *)
(***************************************************************************)
C17_SlotOutOfRangeDropped ==
    [][(/\ Receives
        /\ \A k \in 1..Len(Received) :
                /\ IsChosenLine(Received[k])
                /\ Received[k].obj["slot"].v \notin 1..6)
        => queue' = queue]_vars

(***************************************************************************)
(* C18 as stated: a malformed line forwards nothing and changes no state,  *)
(* and the well-formed lines of the same datagram are forwarded, in their  *)
(* order.                                                                  *)
(***************************************************************************)
C18_MalformedLineDropped ==
    [][(/\ Receives
        /\ \A k \in 1..Len(Received) :
                Malformed(Received[k]) \/ WellFormed(Received[k]))
        => /\ queue' = queue \o ExpectedOf(Received)
           /\ OnlyQueueChanged]_vars

(***************************************************************************)
(* C18, amended: the same for a datagram that decodes as UTF-8 and fits    *)
(* the receive buffer of BUF_LEN bytes.  (A datagram with bytes that are   *)
(* not UTF-8 forwards nothing at all, and what lies beyond the buffer is   *)
(* lost.)                                                                  *)
(***************************************************************************)
C18_MalformedLineDroppedInText ==
    [][(/\ Receives
        /\ \A k \in 1..Len(Received) :
                Malformed(Received[k]) \/ WellFormed(Received[k])
        /\ \A k \in 1..Len(Received) : Received[k].utf8
        /\ Bytes(Received) <= BUF_LEN)
        => /\ queue' = queue \o ExpectedOf(Received)
           /\ OnlyQueueChanged]_vars

\* a datagram of a chosen line, a line that is no JSON and a cancel line
\* without a reason was received while the channel held an event: both
\* events were forwarded behind it, in that order
C18_Witness ==
    /\ Len(out) = 1
    /\ out[1].op = "recv_from"
    /\ Len(out[1].dg) = 3
    /\ IsChosenLine(out[1].dg[1])
    /\ ~out[1].dg[2].valid
    /\ IsCancelLine(out[1].dg[3])
    /\ Len(queue) = 3
    /\ queue[2] = EvChooserChosen("1", 2)
    /\ queue[3] = EvChooserCancel("1", "timeout")

(***************************************************************************)
(* The slot store alone: SlotStorage::new, then up to MaxSaves calls of    *)
(* save with any slot and any text; out keeps the calls.                   *)
(***************************************************************************)
MaxSaves == 3

StoreTexts == {<<>>, <<" ">>, <<"a">>}

StoreInit == Init /\ slots = EmptySlots /\ clipboard = None

StoreSave ==
    \E slot \in SlotId, text \in StoreTexts :
        /\ Len(out) < MaxSaves
        /\ slots' = save(slots, slot, text)
        /\ out' = Append(out, [op |-> "save", slot |-> slot, text |-> text])
        /\ UNCHANGED <<state, cmd_down, next_token, mode, running, queue, timers,
                       now, clipboard, restores, quit_sent, armed, last>>
        /\ UNCHANGED <<tapvars, uivars, hostvars, fnvars>>

StoreNext == StoreSave

StoreSpec == StoreInit /\ [][StoreNext]_vars

\* the calls of save for the slot, and the text of the last of them
SavesOf(slot) == {i \in 1..Len(out) : out[i].op = "save" /\ out[i].slot = slot}

LastSaved(slot) ==
    IF SavesOf(slot) = {} THEN None
    ELSE Some(out[CHOOSE i \in SavesOf(slot) : \A j \in SavesOf(slot) : j <= i].text)

(***************************************************************************)
(* C19: for each of the six slots, get returns exactly the text of the     *)
(* last save (nothing when there was none), and is_empty holds exactly     *)
(* when the slot was never saved or its last saved text is empty.          *)
(***************************************************************************)
C19_SaveThenGet ==
    \A slot \in SlotId :
        /\ get(slots, slot) = LastSaved(slot)
        /\ is_empty(slots, slot) <=>
              (SavesOf(slot) = {} \/ LastSaved(slot) = Some(<<>>))

\* a slot was saved twice with different texts, the second of them white
\* space, and another slot with the empty text
C19_Witness ==
    /\ Len(out) = 3
    /\ out[1].slot = out[2].slot
    /\ out[1].text = <<"a">>
    /\ out[2].text = <<" ">>
    /\ out[3].slot # out[1].slot
    /\ out[3].text = <<>>
    /\ get(slots, out[1].slot) = Some(<<" ">>)
    /\ ~is_empty(slots, out[1].slot)
    /\ is_empty(slots, out[3].slot)

(***************************************************************************)
(* The event tap with the threads it races: the callback loads the         *)
(* published mode (TapLoad), then converts, sends and returns (TapReturn), *)
(* and the loop of run may handle events in between.                       *)
(***************************************************************************)
MaxTapQueue == 2

\* key-down and key-up of the two hotkeys with Cmd, of a slot key, of Escape
\* and of another key, Cmd going down and up, and the notice that the tap was
\* disabled
TapRaws ==
    {Raw(ty, kc, CMD_MASK) : ty \in {"KeyDown", "KeyUp"}, kc \in {VK_ANSI_C, VK_ANSI_V}}
        \cup {Raw(ty, kc, 0) : ty \in {"KeyDown", "KeyUp"},
                               kc \in {VK_ANSI_J, VK_ESCAPE, 0}}
        \cup {Raw("FlagsChanged", CMD_KEYCODE, CMD_MASK),
              Raw("FlagsChanged", CMD_KEYCODE, 0),
              Raw("TapDisabledByTimeout", 0, 0)}

\* move |_proxy, event_type, event| { let m = mode.load(Ordering::Acquire);
TapLoad ==
    \E raw \in TapRaws :
        /\ callback = None
        /\ callback' = Some([raw |-> raw, m |-> mode, synth |-> FALSE])
        /\ out' = <<>>
        /\ last' = NoLast
        /\ UNCHANGED <<state, cmd_down, next_token, mode, slots, running, queue,
                       timers, now, clipboard, restores, quit_sent, armed, gates,
                       contrary, hid, uivars, hostvars, fnvars>>

\* the rest of the callback: convert, send, and return Drop or Keep
TapReturn ==
    /\ callback # None
    /\ LET c == callback[1]
           r == convert_event_and_swallow(c.raw.type, c.raw.keycode, c.raw.flags, c.m)
       IN /\ r.ev # None =>
                /\ Len(queue) < MaxTapQueue
                /\ ArmCapable(r.ev[1]) => next_token + PendingArms < MaxToken
          /\ queue' = queue \o r.ev
          /\ gates' = IF r.ev = None THEN gates
                      ELSE Append(gates, [raw |-> c.raw, m |-> c.m,
                                          swallow |-> r.swallow, synth |-> c.synth])
          /\ out' = << [op |-> "callback", raw |-> c.raw, m |-> c.m, sent |-> r.ev,
                        result |-> IF r.swallow THEN "Drop" ELSE "Keep",
                        synth |-> c.synth] >>
    /\ callback' = None
    /\ last' = NoLast
    /\ UNCHANGED <<state, cmd_down, next_token, mode, slots, running, timers, now,
                   clipboard, restores, quit_sent, armed, contrary, hid, uivars,
                   hostvars, fnvars>>

TapInit == Init /\ slots = EmptySlots /\ clipboard = None

\* the loop handles an event while nobody copies: the clipboard stays empty,
\* and so do the slots
TapProcess == Process /\ UNCHANGED clipboard

\* within one chooser window: no clock tick, no timeout
TapNext ==
    \/ TapLoad
    \/ TapReturn
    \/ TapProcess

TapSpec == TapInit /\ [][TapNext]_vars

\* the step is a return of the callback; Cb is what it read and did
Returned == Len(out') = 1 /\ out'[1].op = "callback"

Cb == out'[1]

IsKeyEvent(raw) == raw.type \in {"KeyDown", "KeyUp"}

SlotOrEscKey(raw) ==
    raw.keycode \in {VK_ANSI_J, VK_ANSI_K, VK_ANSI_L, VK_ANSI_U, VK_ANSI_I,
                     VK_ANSI_O, VK_ESCAPE}

\* the raw event as the state machine gets it
Forwarded(raw) == convert_event(raw.type, raw.keycode, raw.flags)

\* the published modes of a pending save chooser and of the paste chooser
SaveModes == {MODE_COPY_ARMED, MODE_COPY_SELECTING}

ChooserModes == SaveModes \cup {MODE_PASTE_SELECTING}

\* what the claims say of a swallowed slot key or Escape
SwallowedDownOnly ==
    /\ Cb.result = "Drop"
    /\ Cb.raw.type = "KeyDown" => Cb.sent = Forwarded(Cb.raw)
    /\ Cb.raw.type = "KeyUp" => Cb.sent = None

PassedRaw == Cb.result = "Keep" /\ Cb.sent = Forwarded(Cb.raw)

(***************************************************************************)
(* C11 as stated: in the published modes of a pending save chooser and of  *)
(* the paste chooser every slot key or Escape event, down or up, is        *)
(* swallowed, and a raw event is forwarded for the key-down only.          *)
(***************************************************************************)
C11_SlotKeysSwallowed ==
    [][(Returned /\ Cb.m \in ChooserModes /\ IsKeyEvent(Cb.raw) /\ SlotOrEscKey(Cb.raw))
            => SwallowedDownOnly]_vars

(***************************************************************************)
(* C11, amended: that holds in the published modes CopySelecting and       *)
(* PasteSelecting; in CopyArmed (the save hotkey was seen, the release of  *)
(* Cmd not yet) a slot key or Escape is kept and forwarded raw, down and   *)
(* up.                                                                     *)
(***************************************************************************)
C11_SlotKeysSwallowedWhenSelecting ==
    [][(Returned /\ IsKeyEvent(Cb.raw) /\ SlotOrEscKey(Cb.raw))
            => /\ Cb.m \in {MODE_COPY_SELECTING, MODE_PASTE_SELECTING}
                    => SwallowedDownOnly
               /\ Cb.m = MODE_COPY_ARMED => PassedRaw]_vars

\* the callback read CopySelecting for the key-up of Escape, dropped it and
\* sent nothing
C11_Witness ==
    /\ Len(out) = 1
    /\ out[1].op = "callback"
    /\ out[1].m = MODE_COPY_SELECTING
    /\ out[1].raw = Raw("KeyUp", VK_ESCAPE, 0)
    /\ out[1].result = "Drop"
    /\ out[1].sent = None
    /\ state.mode = "CopySelecting"

(***************************************************************************)
(* C12 as stated: in those published modes a key event that is neither a   *)
(* slot key nor Escape is never swallowed.                                 *)
(***************************************************************************)
C12_OtherKeysPass ==
    [][(Returned /\ Cb.m \in ChooserModes /\ IsKeyEvent(Cb.raw) /\ ~SlotOrEscKey(Cb.raw))
            => Cb.result = "Keep"]_vars

(***************************************************************************)
(* C12, amended: such a key event is kept and forwarded raw, but for the   *)
(* key-up of V with Cmd in PasteSelecting, which is swallowed and not      *)
(* forwarded.                                                              *)
(***************************************************************************)
CmdVUp(raw) ==
    raw.type = "KeyUp" /\ keycode_to_key(raw.keycode) = KeyV /\ HasCmd(raw.flags)

C12_OtherKeysPassButCmdVUp ==
    [][(Returned /\ Cb.m \in ChooserModes /\ IsKeyEvent(Cb.raw) /\ ~SlotOrEscKey(Cb.raw))
            => IF Cb.m = MODE_PASTE_SELECTING /\ CmdVUp(Cb.raw)
               THEN Cb.result = "Drop" /\ Cb.sent = None
               ELSE PassedRaw]_vars

\* the callback read PasteSelecting for a key-down of V with Cmd, kept it and
\* forwarded it raw
C12_Witness ==
    /\ Len(out) = 1
    /\ out[1].op = "callback"
    /\ out[1].m = MODE_PASTE_SELECTING
    /\ out[1].raw = Raw("KeyDown", VK_ANSI_V, CMD_MASK)
    /\ out[1].result = "Keep"
    /\ out[1].sent = Some(EvKeyDown(KeyV, CMD_MASK))

(***************************************************************************)
(* C13 as stated: in published mode Idle the key-down of C with Cmd is     *)
(* swallowed and an arm-save trigger is forwarded.                         *)
(***************************************************************************)
CmdCDown(raw) ==
    raw.type = "KeyDown" /\ keycode_to_key(raw.keycode) = KeyC /\ HasCmd(raw.flags)

CmdVDown(raw) ==
    raw.type = "KeyDown" /\ keycode_to_key(raw.keycode) = KeyV /\ HasCmd(raw.flags)

C13_SaveHotkeySwallowed ==
    [][(Returned /\ Cb.m = MODE_IDLE /\ CmdCDown(Cb.raw))
            => Cb.result = "Drop" /\ Cb.sent # None]_vars

(***************************************************************************)
(* C13, amended: it is kept, so the foreground application gets it, and    *)
(* forwarded raw; handled in Idle, the raw event arms the save chooser.    *)
(***************************************************************************)
C13_SaveHotkeyPassedAndArms ==
    [][/\ (Returned /\ Cb.m = MODE_IDLE /\ CmdCDown(Cb.raw)) => PassedRaw
       /\ (Handles /\ state = StIdle /\ SaveHotkey(last'.event))
            => state'.mode = "CopyArmed" /\ mode' = MODE_COPY_ARMED]_vars

\* a key-down of C with Cmd that the callback kept in Idle has armed the save
\* chooser
C13_Witness ==
    /\ last # NoLast
    /\ SaveHotkey(last.event)
    /\ last.gate # None
    /\ last.gate[1].m = MODE_IDLE
    /\ ~last.gate[1].swallow
    /\ last.state = StIdle
    /\ state.mode = "CopyArmed"

(***************************************************************************)
(* C14: in published mode Idle the key-down of V with Cmd is swallowed and *)
(* one CmdVTrigger, and no raw key event, is forwarded.                    *)
(***************************************************************************)
C14_PasteHotkeySwallowed ==
    [][(Returned /\ Cb.m = MODE_IDLE /\ CmdVDown(Cb.raw))
            => /\ Cb.result = "Drop"
               /\ Cb.sent = Some(EvCmdVTrigger)
               /\ queue' = Append(queue, EvCmdVTrigger)]_vars

\* the trigger of a key-down that the callback swallowed in Idle has opened
\* the paste chooser
C14_Witness ==
    /\ last # NoLast
    /\ last.event = EvCmdVTrigger
    /\ last.gate # None
    /\ last.gate[1].m = MODE_IDLE
    /\ last.gate[1].swallow
    /\ CmdVDown(last.gate[1].raw)
    /\ state.mode = "PasteSelecting"

C16_StaleByOneEvent == contrary <= 1


(***************************************************************************)
(* The chooser UI (apps/clip-ui/src-tauri/src/lib.rs).  Its UDP listener   *)
(* thread parses one JSON value per datagram and hands closures to the     *)
(* main thread; the main thread runs them later, in order.  The webview    *)
(* calls the commands send_chosen, send_cancel and hide_chooser.  The      *)
(* window "chooser" comes from the bundle's configuration and is taken to  *)
(* exist and to start hidden.                                              *)
(***************************************************************************)
MaxMain == 3         \* closures waiting for the main thread

UI_BUF_LEN == 512

Closure(op, token, repeat) == [op |-> op, token |-> token, repeat |-> repeat]

\* the listener's loop body for one datagram: the closures it hands over,
\* tok being CURRENT_TOKEN under the lock and seen the tokens already hidden
ui_listener(msg, tok, seen) ==
    IF ~msg.utf8 \/ ~msg.valid \/ msg.bytes > UI_BUF_LEN THEN <<>>
    ELSE LET v == msg.obj IN
         IF HasStr(v, "type") /\ v.type.v = "show"
         THEN IF HasStr(v, "mode") /\ HasStr(v, "token") /\ HasU64(v, "timeout_ms")
              THEN << Closure("show", v.token.v, FALSE) >>
              ELSE <<>>
         ELSE IF HasStr(v, "type") /\ v.type.v = "hide"
         THEN IF HasStr(v, "token") /\ tok = Some(v.token.v)
              THEN << Closure("hide", v.token.v, v.token.v \in seen) >>
              ELSE <<>>
         ELSE <<>>

\* what a closure does on the main thread to CURRENT_TOKEN and the window
ui_run(c, tok, vis) ==
    IF c.op = "show" THEN [token |-> Some(c.token), visible |-> TRUE]
    ELSE IF c.op = "hide" THEN [token |-> None, visible |-> FALSE]
    ELSE [token |-> tok, visible |-> TRUE]

ShowMsg(t) ==
    Line([type |-> JStr("show"), mode |-> JStr("save"), token |-> JStr(t),
          timeout_ms |-> JNum(SLOT_SELECT_WINDOW)])

HideMsg(t) == Line([type |-> JStr("hide"), token |-> JStr(t)])

UiMessages ==
    {ShowMsg(t) : t \in UdpTokens}
    \cup {HideMsg(t) : t \in UdpTokens}
    \cup {Line([type |-> JStr("show"), mode |-> JStr("save"), token |-> JStr("1")]),
          Line([type |-> JStr("hide")]),
          Line([type |-> JStr("chosen"), token |-> JStr("1"), slot |-> JNum(1)]),
          [ShowMsg("1") EXCEPT !.bytes = 600],
          NotJson(40), NotUtf8}

AgentUnchanged ==
    UNCHANGED <<state, cmd_down, next_token, mode, slots, running, queue, timers,
                now, clipboard, restores, quit_sent, armed, tapvars, hostvars, fnvars>>

\* the UI's listener receives one datagram; a token is allocated once, so no
\* show carries a token that a hide has already closed
UiReceive ==
    \E msg \in UiMessages :
        LET cs == ui_listener(msg, current_token, hides_seen) IN
        /\ \A t \in hides_seen : msg # ShowMsg(t)
        /\ Len(main_thread) + Len(cs) <= MaxMain
        /\ main_thread' = main_thread \o cs
        /\ hides_seen' = hides_seen \cup {cs[i].token : i \in {j \in 1..Len(cs) : cs[j].op = "hide"}}
        /\ out' = << [op |-> "ui_recv", msg |-> msg] >>
        /\ last' = NoLast
        /\ UNCHANGED <<current_token, chooser_visible>>
        /\ AgentUnchanged

\* the main thread runs the oldest closure
UiMain ==
    /\ main_thread # <<>>
    /\ LET r == ui_run(Head(main_thread), current_token, chooser_visible) IN
        /\ current_token' = r.token
        /\ chooser_visible' = r.visible
    /\ main_thread' = Tail(main_thread)
    /\ out' = << [op |-> "ui_main", closure |-> Head(main_thread)] >>
    /\ last' = NoLast
    /\ UNCHANGED hides_seen
    /\ AgentUnchanged

\* the webview calls send_chosen or send_cancel: the datagram leaves for the
\* agent (whose listener takes datagrams in UdpReceive), the token is cleared
UiSendChosen ==
    \E t \in UdpTokens, n \in 1..Min(MaxSlotKeys, 6) :
        /\ current_token' = None
        /\ out' = << [op |-> "send_to_agent", type |-> "chosen", token |-> t, slot |-> n] >>
        /\ last' = NoLast
        /\ UNCHANGED <<chooser_visible, main_thread, hides_seen>>
        /\ AgentUnchanged

UiSendCancel ==
    \E t \in UdpTokens :
        /\ current_token' = None
        /\ out' = << [op |-> "send_to_agent", type |-> "cancel", token |-> t, slot |-> 0] >>
        /\ last' = NoLast
        /\ UNCHANGED <<chooser_visible, main_thread, hides_seen>>
        /\ AgentUnchanged

\* the webview calls hide_chooser
UiHideChooser ==
    /\ chooser_visible' = FALSE
    /\ out' = << [op |-> "hide_chooser"] >>
    /\ last' = NoLast
    /\ UNCHANGED <<current_token, main_thread, hides_seen>>
    /\ AgentUnchanged

UiInit == Init /\ slots = EmptySlots /\ clipboard = None

\* the UI beside an agent that stays Idle: the agent takes datagrams and
\* handles them, nothing arms a chooser
UiNext ==
    \/ UiReceive
    \/ UiMain
    \/ UiSendChosen
    \/ UiSendCancel
    \/ UiHideChooser
    \/ UdpReceive
    \/ Process

UiSpec == UiInit /\ [][UiNext]_vars

\* the main thread runs the closure of a hide whose token was hidden before
RunsRepeatedHide ==
    /\ Len(out') = 1
    /\ out'[1].op = "ui_main"
    /\ out'[1].closure.op = "hide"
    /\ out'[1].closure.repeat

\* the UI's listener receives hide(T), T hidden before
ReceivesRepeatedHide ==
    /\ Len(out') = 1
    /\ out'[1].op = "ui_recv"
    /\ \E t \in hides_seen : out'[1].msg = HideMsg(t)

UiObservable == <<current_token, chooser_visible>>

(***************************************************************************)
(* C20: a second hide(T), and a Cancel{T} after T was resolved, change     *)
(* nothing observable: in the UI neither the receipt of the repeated hide  *)
(* nor the closure it hands to the main thread changes the current token   *)
(* or the chooser's visibility; in the agent a Cancel whose token is not   *)
(* current leaves mode, token and slots as they were.                      *)
(***************************************************************************)
C20_RepeatedHideChangesNothing ==
    /\ [][ReceivesRepeatedHide => UNCHANGED UiObservable]_vars
    /\ [][RunsRepeatedHide => UNCHANGED UiObservable]_vars
    /\ [][(Handles /\ last'.event.type = "ChooserCancel"
                   /\ ~TokenIs(last'.event, state)) => NoEffect]_vars


(***************************************************************************)
(* The agent under fair scheduling.  A timeout thread sleeps until its     *)
(* deadline and sends; the channel is unbounded, so its send never waits   *)
(* (the bound on queue is the model's, hence the strong fairness); the     *)
(* loop of run takes every event that is sent; the clock goes on as long   *)
(* as a thread sleeps.  The keyboard, the chooser surface and the          *)
(* interrupt may act or stay silent.                                       *)
(***************************************************************************)
LiveTick ==
    /\ \/ now < MaxTicks * SLOT_SELECT_WINDOW
       \/ \E tm \in timers : now < tm.deadline
    /\ now' = now + SLOT_SELECT_WINDOW
    /\ out' = <<>>
    /\ last' = NoLast
    /\ UNCHANGED <<state, cmd_down, next_token, mode, slots, running, queue, timers,
                   clipboard, restores, quit_sent, armed>>
    /\ UNCHANGED <<tapvars, uivars, hostvars, fnvars>>

LiveInit == Init /\ slots = EmptySlots /\ clipboard = None

LiveNext ==
    \/ TapSend
    \/ UdpReceive
    \/ TimerFire
    \/ LiveTick
    \/ CtrlC
    \/ Process

LiveSpec ==
    /\ LiveInit
    /\ [][LiveNext]_vars
    /\ WF_vars(LiveTick)
    /\ SF_vars(TimerFire)
    /\ WF_vars(Process)

(***************************************************************************)
(* C21: under fair scheduling of the timeout threads and of the loop every *)
(* non-Idle state is followed by Idle, with no help from the keyboard or   *)
(* the chooser surface: the Timeout of the current token is sent and       *)
(* handled.  (A Quit ends the loop, and with it the machine.)              *)
(***************************************************************************)
C21_TimeoutReturnsToIdle ==
    /\ (NonIdle(state) /\ running) ~> (state = StIdle \/ ~running)
    /\ [][(Handles /\ NonIdle(state) /\ last'.event = EvTimeout(state.token))
            => state' = StIdle /\ mode' = MODE_IDLE]_vars

\* the Timeout of the current token has closed a chooser that no key closed
C21_Witness ==
    /\ last # NoLast
    /\ NonIdle(last.state)
    /\ last.event = EvTimeout(last.state.token)
    /\ last.now >= last.state.deadline
    /\ state = StIdle
    /\ mode = MODE_IDLE


(***************************************************************************)
(* C22: the iteration that takes a Quit leaves the loop at once, in every  *)
(* state: it changes neither the state, the published mode, the token      *)
(* counter nor a slot, starts no thread, touches no clipboard and calls    *)
(* nothing; and once the loop is left no event is taken from the channel,  *)
(* whatever is sent after.                                                 *)
(***************************************************************************)
C22_QuitStopsLoop ==
    /\ [][(Handles /\ last'.event = EvQuit)
            => /\ ~running'
               /\ NoEffect
               /\ cmd_down' = cmd_down]_vars
    /\ [][~running => (~Handles /\ ~running' /\ Len(queue') >= Len(queue))]_vars

\* the loop was left in an open chooser and an event sent after the Quit
\* waits in the channel
C22_Witness ==
    /\ ~running
    /\ NonIdle(state)
    /\ mode = set_mode_for_state(state)
    /\ queue # <<>>
    /\ queue[1] # EvQuit


(***************************************************************************)
(* Shutdown (main.rs run_macos).  The interrupt handler sends Quit and     *)
(* stops the main run loop, in which the tap's callbacks run: a callback   *)
(* under way returns, none starts after.  The main routine then joins the  *)
(* thread of run: the join completes when the loop of run is left.  The    *)
(* handler's send never waits, whatever the channel holds.                 *)
(***************************************************************************)
\* the handler stopping the run loop without sending Quit
QuitCtrlC_NoSend ==
    /\ ~quit_sent
    /\ quit_sent' = TRUE
    /\ out' = << [op |-> "ctrlc"] >>
    /\ last' = NoLast
    /\ UNCHANGED <<state, cmd_down, next_token, mode, slots, running, queue, timers,
                   now, clipboard, restores, armed>>
    /\ UNCHANGED <<tapvars, uivars, hostvars, fnvars>>

QuitCtrlC ==
    /\ ~quit_sent
    /\ queue' = Append(queue, EvQuit)
    /\ quit_sent' = TRUE
    /\ out' = << [op |-> "ctrlc"] >>
    /\ last' = NoLast
    /\ UNCHANGED <<state, cmd_down, next_token, mode, slots, running, timers, now,
                   clipboard, restores, armed>>
    /\ UNCHANGED <<tapvars, uivars, hostvars, fnvars>>

\* the keys that open a chooser, choose a slot and release Cmd
QuitRaws ==
    {Raw("KeyDown", VK_ANSI_C, CMD_MASK), Raw("KeyDown", VK_ANSI_V, CMD_MASK),
     Raw("KeyDown", VK_ANSI_J, 0), Raw("FlagsChanged", CMD_KEYCODE, 0)}

\* a callback starts while the run loop runs
QuitTapLoad ==
    \E raw \in QuitRaws :
        /\ ~quit_sent
        /\ callback = None
        /\ callback' = Some([raw |-> raw, m |-> mode, synth |-> FALSE])
        /\ out' = <<>>
        /\ last' = NoLast
        /\ UNCHANGED <<state, cmd_down, next_token, mode, slots, running, queue,
                       timers, now, clipboard, restores, quit_sent, armed, gates,
                       contrary, hid, uivars, hostvars, fnvars>>

\* the run loop is stopped and the thread of run has ended: state_handle.join()
\* returns
Joined == quit_sent /\ ~running

QuitInit == Init /\ slots = EmptySlots /\ clipboard = None

QuitNext ==
    \/ QuitTapLoad
    \/ TapReturn
    \/ QuitCtrlC
    \/ TapProcess

QuitSpec ==
    /\ QuitInit
    /\ [][QuitNext]_vars
    /\ WF_vars(TapProcess)

Ok == [ok |-> TRUE, msg |-> ""]

Err(msg) == [ok |-> FALSE, msg |-> msg]

MainAtEntry(trusted) ==
    [pc |-> "permission", trusted |-> trusted, seen |-> None, conn |-> FALSE,
     persistence |-> FALSE, started |-> {}, run |-> "none", result |-> None]

Returns(result) == [main EXCEPT !.pc = "returned", !.result = Some(result)]

\* a step of run_macos that leaves the agent's threads alone
MainStep(m) ==
    /\ main' = m
    /\ out' = <<>>
    /\ last' = NoLast
    /\ UNCHANGED <<state, cmd_down, next_token, mode, running, queue, timers, now,
                   clipboard, restores, quit_sent, armed, tapvars, uivars, fnvars>>

\* run_macos going on without the test
MainPermission_NoCheck ==
    /\ main.pc = "permission"
    /\ MainStep([main EXCEPT !.seen = Some(main.trusted), !.pc = "init_db"])
    /\ UNCHANGED slots

\* if !has_accessibility_permission() { return Err(..) }
MainPermission ==
    /\ main.pc = "permission"
    /\ MainStep(IF main.trusted
                THEN [main EXCEPT !.seen = Some(TRUE), !.pc = "init_db"]
                ELSE [Returns(Err(PERMISSION_ERROR)) EXCEPT !.seen = Some(FALSE)])
    /\ UNCHANGED slots

\* the user withdraws the permission while the agent starts
Revoke ==
    /\ main.pc \notin {"permission", "returned"}
    /\ main.trusted
    /\ MainStep([main EXCEPT !.trusted = FALSE])
    /\ UNCHANGED slots

\* persistence::sqlite::init_db(): Some(conn), or None with a warning
MainInitDb ==
    \E ok \in BOOLEAN :
        /\ main.pc = "init_db"
        /\ MainStep([main EXCEPT !.conn = ok, !.pc = "listener"])
        /\ UNCHANGED slots

\* udp::start_response_listener(tx.clone())
MainListener ==
    /\ main.pc = "listener"
    /\ MainStep([main EXCEPT !.started = @ \cup {"listener"}, !.pc = "handler"])
    /\ UNCHANGED slots

\* ctrlc::set_handler(..).map_err(..)?
MainHandler ==
    \E ok \in BOOLEAN :
        /\ main.pc = "handler"
        /\ MainStep(IF ok
                    THEN [main EXCEPT !.started = @ \cup {"handler"}, !.pc = "spawn"]
                    ELSE Returns(Err("Failed to set Ctrl+C handler")))
        /\ UNCHANGED slots

\* thread::spawn(move || run(rx, tx_state, mode, persistence))
MainSpawn ==
    /\ main.pc = "spawn"
    /\ MainStep([main EXCEPT !.started = @ \cup {"state"}, !.pc = "tap",
                             !.run = "prologue"])
    /\ UNCHANGED slots

\* what load_all may find in the table, slot_key -> content: nothing, two
\* slots, a slot and a key that is no slot label
Tables ==
    { <<>>,
      ("J" :> <<"b">>) @@ ("K" :> <<>>),
      ("J" :> <<"b">>) @@ ("X" :> <<"c">>) }

\* SlotId::from_label: the slot of one of the six labels
from_label(k) == IF k \in SlotId THEN Some(k) ELSE None

\* rows.into_iter().filter_map(from_label).collect()
Loaded(rows) ==
    [s \in SlotId |->
        IF \E k \in DOMAIN rows : from_label(k) = Some(s)
        THEN Some(rows[CHOOSE k \in DOMAIN rows : from_label(k) = Some(s)])
        ELSE None]

\* the prologue of run keeping no row of the table
RunPrologue_NoLoad ==
    \E ok \in BOOLEAN, rows \in Tables :
        /\ main.pc # "returned"
        /\ main.run = "prologue"
        /\ main' = [main EXCEPT !.run = "loop", !.persistence = main.conn /\ ok]
        /\ slots' = EmptySlots
        /\ state' = StIdle
        /\ cmd_down' = FALSE
        /\ next_token' = 0
        /\ mode' = MODE_IDLE
        /\ out' = << [op |-> "run_prologue", conn |-> main.conn, ok |-> ok,
                      rows |-> IF main.conn /\ ok THEN rows ELSE <<>>] >>
        /\ last' = NoLast
        /\ UNCHANGED <<running, queue, timers, now, clipboard, restores, quit_sent,
                       armed, tapvars, uivars, fnvars>>

\* the prologue of run: the store from load_all or an empty one, the locals,
\* the published mode
RunPrologue ==
    \E ok \in BOOLEAN, rows \in Tables :
        /\ main.pc # "returned"
        /\ main.run = "prologue"
        /\ main' = [main EXCEPT !.run = "loop", !.persistence = main.conn /\ ok]
        /\ slots' = IF main.conn /\ ok THEN Loaded(rows) ELSE EmptySlots
        /\ state' = StIdle
        /\ cmd_down' = FALSE
        /\ next_token' = 0
        /\ mode' = MODE_IDLE
        /\ out' = << [op |-> "run_prologue", conn |-> main.conn, ok |-> ok,
                      rows |-> IF main.conn /\ ok THEN rows ELSE <<>>] >>
        /\ last' = NoLast
        /\ UNCHANGED <<running, queue, timers, now, clipboard, restores, quit_sent,
                       armed, tapvars, uivars, fnvars>>

\* run_event_tap_with_sender: the second test, then CGEventTap::with_enabled
MainTap ==
    \E created \in BOOLEAN :
        /\ main.pc = "tap"
        /\ MainStep(IF ~main.trusted THEN Returns(Err(PERMISSION_ERROR))
                    ELSE IF ~created THEN Returns(Err("Failed to create CGEventTap"))
                    ELSE [main EXCEPT !.started = @ \cup {"tap"}, !.pc = "run_loop"])
        /\ UNCHANGED slots

\* the run loop is stopped by the handler; run_macos goes on to the join
MainRunLoopStops ==
    /\ main.pc = "run_loop"
    /\ quit_sent
    /\ MainStep([main EXCEPT !.started = @ \ {"tap"}, !.pc = "join"])
    /\ UNCHANGED slots

\* state_handle.join(); Ok(())
MainJoin ==
    /\ main.pc = "join"
    /\ ~running
    /\ MainStep([(Returns(Ok)) EXCEPT !.started = {}])
    /\ UNCHANGED slots

Alive == main.pc # "returned"

StartUdpReceive == Alive /\ "listener" \in main.started /\ UdpReceive

StartTapSend == Alive /\ "tap" \in main.started /\ TapSend

StartCtrlC == Alive /\ "handler" \in main.started /\ CtrlC

StartProcess == Alive /\ main.run = "loop" /\ Process

StartInit ==
    /\ \E trusted \in BOOLEAN : main = MainAtEntry(trusted)
    /\ state = StIdle
    /\ cmd_down = FALSE
    /\ next_token = 0
    /\ mode = MODE_IDLE
    /\ slots = EmptySlots
    /\ running = TRUE
    /\ queue = <<>>
    /\ timers = {}
    /\ now = 0
    /\ clipboard = None
    /\ restores = <<>>
    /\ quit_sent = FALSE
    /\ armed = <<>>
    /\ out = <<>>
    /\ last = NoLast
    /\ callback = None
    /\ gates = <<>>
    /\ contrary = 0
    /\ hid = <<>>
    /\ current_token = None
    /\ chooser_visible = FALSE
    /\ main_thread = << [op |-> "startup_show"] >>
    /\ hides_seen = {}
    /\ wire = NoWire
    /\ probe = NoProbe

StartNext ==
    \/ MainPermission
    \/ Revoke
    \/ MainInitDb
    \/ MainListener
    \/ MainHandler
    \/ MainSpawn
    \/ RunPrologue
    \/ MainTap
    \/ MainRunLoopStops
    \/ MainJoin
    \/ StartUdpReceive
    \/ StartTapSend
    \/ StartCtrlC
    \/ StartProcess

StartSpec == StartInit /\ [][StartNext]_vars

(***************************************************************************)
(* C24: when the permission to capture input is not granted at startup,    *)
(* run_macos returns the permission error with no listener thread, no      *)
(* thread of run, no handler and no tap started, and nothing of the agent  *)
(* ever runs; a tap never runs without that test passed and the thread of  *)
(* run started.                                                            *)
(***************************************************************************)
C24_NoPermissionFailsFast ==
    /\ main.seen = Some(FALSE)
        => /\ main.pc = "returned"
           /\ main.result = Some(Err(PERMISSION_ERROR))
           /\ main.started = {}
           /\ queue = <<>>
           /\ last = NoLast
           /\ state = StIdle
    /\ "tap" \in main.started => main.seen = Some(TRUE) /\ "state" \in main.started

\* run_macos has returned the permission error from its first test
C24_Witness ==
    /\ main.seen = Some(FALSE)
    /\ main.pc = "returned"
    /\ main.result = Some(Err(PERMISSION_ERROR))
    /\ main.started = {}


\* the prologue of run found a connection and could not load from it
LoadFails ==
    main.run = "prologue" /\ main.conn /\ main'.run = "loop" /\ ~main'.persistence

\* the write-throughs of the step that failed
FailedUpserts(o) == {i \in 1..Len(o) : o[i].op = "upsert_slot" /\ ~o[i].ok}

(***************************************************************************)
(* C25: a failure of the durable backing is never fatal.  When the load in *)
(* the prologue of run fails, run goes on with an empty store that writes  *)
(* nothing through; when the write-through of a save fails, the loop goes  *)
(* on and get returns the text just saved.                                 *)
(***************************************************************************)
C25_PersistenceFailureNotFatal ==
    /\ [][LoadFails => /\ slots' = EmptySlots
                       /\ running'
                       /\ "state" \in main'.started
                       /\ main'.result = None]_vars
    /\ [][Handles => \A i \in FailedUpserts(out') :
                        /\ get(slots', out'[i].slot) = Some(out'[i].text)
                        /\ running'
                        /\ state' = StIdle
                        /\ main' = main]_vars
    /\ [][(Handles /\ ~main.persistence)
            => \A i \in 1..Len(out') : out'[i].op # "upsert_slot"]_vars

\* a save whose write-through failed: the slot holds the text, the loop runs
C25_Witness ==
    /\ last # NoLast
    /\ running
    /\ main.persistence
    /\ FailedUpserts(out) # {}
    /\ \A i \in FailedUpserts(out) : get(slots, out[i].slot) = Some(out[i].text)
    /\ state = StIdle


\* the calls of paste_from_slot in the step, if it ran
Pastes(o) == {i \in 1..Len(o) : o[i].op = "paste_from_slot"}

\* the positions of the calls of one kind
CallsOf(c, kind) == {k \in 1..Len(c) : c[k].call = kind}

(***************************************************************************)
(* C26: paste_from_slot reads the clipboard as backup, then writes the     *)
(* slot text, then posts Cmd-down, V-down, V-up, Cmd-up in that order, and *)
(* last starts the thread that, after RESTORE_DELAY_MS, writes the backup  *)
(* back; the thread is started only when all four keys were posted, and    *)
(* the backup is written back by that thread, never by the handler.        *)
(***************************************************************************)
C26_PasteOrder ==
    /\ [][Handles => \A i \in Pastes(out') :
            LET c == out'[i].calls
                posts == CallsOf(c, "post")
            IN /\ c[1] = CallRead(read_text(clipboard, c[1].result # None))
               /\ c[2].call = "write_text" /\ c[2].text = out'[i].text
               /\ \A k \in 3..Len(c) : c[k].call \in {"post", "spawn_restore"}
               /\ ~c[2].ok => Len(c) = 2 /\ clipboard' = clipboard
               /\ c[2].ok => clipboard' = Some(out'[i].text)
               /\ posts = 3..(2 + Cardinality(posts))
               /\ \A k \in posts : c[k].event = CmdVEvents[k - 2]
               /\ \A k \in CallsOf(c, "spawn_restore") :
                    /\ k = Len(c)
                    /\ Cardinality(posts) = Len(CmdVEvents)
                    /\ c[k] = CallSpawnRestore(c[1].result)
               /\ restores' = restores \o [k \in 1..Cardinality(CallsOf(c, "spawn_restore"))
                                              |-> c[1].result]
               /\ Cardinality(posts) = Len(CmdVEvents)
                    => CallsOf(c, "spawn_restore") # {}]_vars
    /\ [][Len(restores') < Len(restores) => ~Handles]_vars

\* a paste went through: backup read, slot text written, four keys posted,
\* the restore thread waiting with the backup
C26_Witness ==
    /\ last # NoLast
    /\ Pastes(out) = {1}
    /\ Len(out[1].calls) = 7
    /\ out[1].calls[7].call = "spawn_restore"
    /\ out[1].calls[1].result # None
    /\ restores = << out[1].calls[1].result >>
    /\ clipboard = Some(out[1].text)
    /\ clipboard # out[1].calls[1].result


(***************************************************************************)
(* The show message on the wire (ipc/udp.rs send_show; the show branch of  *)
(* the chooser's listener in apps/clip-ui/src-tauri/src/lib.rs).  A        *)
(* message is the sequence of its bytes, one character each.  The parser   *)
(* covers the JSON that send_show can produce and what is left of it when  *)
(* it is cut: one object without white space whose values are strings      *)
(* without escapes or unsigned integers; any other text is an error.       *)
(***************************************************************************)
MaxWireTimeout == 1000000000    \* the largest timeout_ms tried

\* the literal pieces of the format string of send_show
SHOW_HEAD ==
    <<"{", "\"", "t", "y", "p", "e", "\"", ":", "\"", "s", "h", "o", "w",
      "\"", ",", "\"", "m", "o", "d", "e", "\"", ":", "\"">>

SHOW_TOKEN ==
    <<"\"", ",", "\"", "t", "o", "k", "e", "n", "\"", ":", "\"">>

SHOW_TIMEOUT ==
    <<"\"", ",", "\"", "t", "i", "m", "e", "o", "u", "t", "_", "m", "s",
      "\"", ":">>

SHOW_TAIL ==
    <<",", "\"", "a", "n", "c", "h", "o", "r", "\"", ":", "\"", "m", "o",
      "u", "s", "e", "\"", "}">>

KEY_TYPE ==
    <<"t", "y", "p", "e">>

KEY_MODE ==
    <<"m", "o", "d", "e">>

KEY_TOKEN ==
    <<"t", "o", "k", "e", "n">>

KEY_TIMEOUT_MS ==
    <<"t", "i", "m", "e", "o", "u", "t", "_", "m", "s">>

TXT_SHOW ==
    <<"s", "h", "o", "w">>

TXT_SAVE ==
    <<"s", "a", "v", "e">>

TXT_PASTE ==
    <<"p", "a", "s", "t", "e">>

DIGITS == <<"0", "1", "2", "3", "4", "5", "6", "7", "8", "9">>

IsDigit(c) == \E d \in 1..10 : DIGITS[d] = c

DigitVal(c) == (CHOOSE d \in 1..10 : DIGITS[d] = c) - 1

\* Display of an unsigned integer
RECURSIVE Decimal(_)
Decimal(n) ==
    IF n < 10 THEN << DIGITS[n + 1] >>
    ELSE Append(Decimal(n \div 10), DIGITS[(n % 10) + 1])

\* send_show with the token written without its quotes
send_show_BareToken(m, token, timeout_ms) ==
    SHOW_HEAD \o m
        \o SubSeq(SHOW_TOKEN, 1, Len(SHOW_TOKEN) - 1) \o token
        \o Tail(SHOW_TIMEOUT) \o Decimal(timeout_ms) \o SHOW_TAIL

\* the bytes send_show hands to send_to
send_show(m, token, timeout_ms) ==
    SHOW_HEAD \o m \o SHOW_TOKEN \o token \o SHOW_TIMEOUT
        \o Decimal(timeout_ms) \o SHOW_TAIL

\* recv_from into the 512-byte buffer: what does not fit is discarded
recv_from(datagram) == SubSeq(datagram, 1, Min(Len(datagram), UI_BUF_LEN))

ParseErr == [ok |-> FALSE]

\* the first position from i on that holds c, 0 when there is none
Find(s, i, c) ==
    LET js == {j \in i..Len(s) : s[j] = c}
    IN IF js = {} THEN 0 ELSE CHOOSE j \in js : \A k \in js : j <= k

\* the position after the digits that start at i
RECURSIVE DigitsEnd(_, _)
DigitsEnd(s, i) ==
    IF i <= Len(s) /\ IsDigit(s[i]) THEN DigitsEnd(s, i + 1) ELSE i

RECURSIVE NumVal(_, _, _, _)
NumVal(s, i, j, acc) ==
    IF i >= j THEN acc ELSE NumVal(s, i + 1, j, 10 * acc + DigitVal(s[i]))

\* one value starting at i: a string or an unsigned integer
ParseValue(s, i) ==
    IF i > Len(s) THEN ParseErr
    ELSE IF s[i] = "\""
    THEN LET q == Find(s, i + 1, "\"") IN
         IF q = 0 \/ Find(s, i + 1, "\\") \in (i + 1)..q THEN ParseErr
         ELSE [ok |-> TRUE, next |-> q + 1,
               val |-> [t |-> "str", v |-> SubSeq(s, i + 1, q - 1)]]
    ELSE IF IsDigit(s[i])
    THEN LET j == DigitsEnd(s, i) IN
         IF s[i] = "0" /\ j > i + 1 THEN ParseErr
         ELSE [ok |-> TRUE, next |-> j,
               val |-> [t |-> "u64", v |-> NumVal(s, i, j, 0)]]
    ELSE ParseErr

Put(obj, key, val) ==
    [k \in DOMAIN obj \cup {key} |-> IF k = key THEN val ELSE obj[k]]

\* the members of an object from the key that opens at i
RECURSIVE ParseMembers(_, _, _)
ParseMembers(s, i, obj) ==
    IF i > Len(s) \/ s[i] # "\"" THEN ParseErr
    ELSE LET q == Find(s, i + 1, "\"") IN
         IF q = 0 \/ q + 1 > Len(s) \/ s[q + 1] # ":" THEN ParseErr
         ELSE LET v == ParseValue(s, q + 2) IN
              IF ~v.ok \/ v.next > Len(s) THEN ParseErr
              ELSE LET o == Put(obj, SubSeq(s, i + 1, q - 1), v.val) IN
                   IF s[v.next] = "," THEN ParseMembers(s, v.next + 1, o)
                   ELSE IF s[v.next] = "}" /\ v.next = Len(s)
                   THEN [ok |-> TRUE, obj |-> o]
                   ELSE ParseErr

\* serde_json::from_str::<Value>
from_str(s) ==
    IF Len(s) < 2 \/ s[1] # "{" THEN ParseErr
    ELSE IF s = << "{", "}" >> THEN [ok |-> TRUE, obj |-> <<>>]
    ELSE ParseMembers(s, 2, <<>>)

\* v.get(key).and_then(as_str) and v.get(key).and_then(as_u64) are Some
GetStr(obj, key) == key \in DOMAIN obj /\ obj[key].t = "str"

GetU64(obj, key) == key \in DOMAIN obj /\ obj[key].t = "u64"

\* the listener's show branch: the arguments it passes to
\* show_chooser_on_main_thread, None when it shows nothing
ui_show(buf) ==
    LET r == from_str(Trim(buf)) IN
    IF ~r.ok THEN None
    ELSE IF ~(GetStr(r.obj, KEY_TYPE) /\ r.obj[KEY_TYPE].v = TXT_SHOW) THEN None
    ELSE IF GetStr(r.obj, KEY_MODE) /\ GetStr(r.obj, KEY_TOKEN)
            /\ GetU64(r.obj, KEY_TIMEOUT_MS)
    THEN Some([mode |-> r.obj[KEY_MODE].v, token |-> r.obj[KEY_TOKEN].v,
               timeout_ms |-> r.obj[KEY_TIMEOUT_MS].v])
    ELSE None

Nines(n) == [i \in 1..n |-> "9"]

WireModes == {TXT_SAVE, TXT_PASTE}

\* token lengths on both sides of the longest message the buffer holds
WireTokenLens == {20, 430, 435, 436, 437, 438, 439, 440, 445}

WireTokens ==
    { <<>>, <<"0">>, <<"7">>, <<"4", "2">>, <<"0", "0", "7">> }
    \cup {Nines(n) : n \in WireTokenLens}

WireTimeouts == {0, 1, SLOT_SELECT_WINDOW, 2500, MaxWireTimeout}

WireArgs(w) == [mode |-> w.mode, token |-> w.token, timeout_ms |-> w.timeout_ms]

OnlyWire ==
    /\ out' = <<>>
    /\ last' = NoLast
    /\ UNCHANGED <<state, cmd_down, next_token, mode, slots, running, queue, timers,
                   now, clipboard, restores, quit_sent, armed, tapvars, uivars,
                   hostvars, probe>>

\* send_show formats the message and sends it
WireSend ==
    /\ wire.pc = "args"
    /\ wire' = [pc |-> "sent", mode |-> wire.mode, token |-> wire.token,
                timeout_ms |-> wire.timeout_ms,
                datagram |-> send_show(wire.mode, wire.token, wire.timeout_ms)]
    /\ OnlyWire

\* the listener's recv_from returns
WireRecv ==
    /\ wire.pc = "sent"
    /\ wire' = [pc |-> "received", mode |-> wire.mode, token |-> wire.token,
                timeout_ms |-> wire.timeout_ms, datagram |-> wire.datagram,
                buf |-> recv_from(wire.datagram)]
    /\ OnlyWire

\* the listener decodes what it received
WireDecode ==
    /\ wire.pc = "received"
    /\ wire' = [pc |-> "decoded", mode |-> wire.mode, token |-> wire.token,
                timeout_ms |-> wire.timeout_ms, datagram |-> wire.datagram,
                buf |-> wire.buf, shown |-> ui_show(wire.buf)]
    /\ OnlyWire

WireInit ==
    /\ InitRun
    /\ main = MainUp(FALSE)
    /\ clipboard = None
    /\ probe = NoProbe
    /\ \E m \in WireModes, token \in WireTokens, timeout_ms \in WireTimeouts :
         wire = [pc |-> "args", mode |-> m, token |-> token,
                 timeout_ms |-> timeout_ms]

WireNext == WireSend \/ WireRecv \/ WireDecode

WireSpec == WireInit /\ [][WireNext]_vars

(***************************************************************************)
(* C27: a show message that fits the listener's 512-byte buffer is decoded *)
(* to the mode, token and timeout that send_show was given.                *)
(***************************************************************************)
C27_ShowRoundTripsWithinBuffer ==
    (wire.pc = "decoded" /\ Len(wire.datagram) <= UI_BUF_LEN)
        => wire.shown = Some(WireArgs(wire))

\* C27 as stated: every show message is decoded to the mode, token and
\* timeout that send_show was given.
C27_ShowRoundTrips == wire.pc = "decoded" => wire.shown = Some(WireArgs(wire))

\* a paste message with a long token that fills the buffer to its last byte
\* was decoded
C27_Witness ==
    /\ wire.pc = "decoded"
    /\ wire.mode = TXT_PASTE
    /\ Len(wire.token) > 20
    /\ Len(wire.datagram) = UI_BUF_LEN
    /\ wire.shown # None


(***************************************************************************)
(* One call of read_text_with_retry (macos/clipboard.rs) on its own: the   *)
(* wait is any Duration, reads[i] is what the i-th attempt would find,     *)
(* None when the clipboard is unavailable or holds no text.                *)
(***************************************************************************)
MaxWaitMs == 1000     \* the longest wait below one limb tried

\* a wait of 2^32 intervals, and waits near it
ProbeWaits ==
    {from_millis(ms) : ms \in {0, 49, RETRY_INTERVAL, 99, 100, 250, SAVE_MAX_WAIT,
                               350, MaxWaitMs}}
    \cup { <<0, 0, RETRY_INTERVAL>>, <<49, 0, RETRY_INTERVAL>>,
           <<100, 0, RETRY_INTERVAL>>, <<0, 1, RETRY_INTERVAL>> }

ProbeClips == {None, Some(<<" ">>), Some(<<"a">>), Some(<<" ", "b">>)}

ProbeReads == [1..MAX_TRIES -> ProbeClips]

RetryCall ==
    /\ probe.pc = "call"
    /\ LET r == read_text_with_retry(probe.max_wait, probe.reads) IN
        probe' = [pc |-> "returned", max_wait |-> probe.max_wait,
                  reads |-> probe.reads, result |-> r.result, n |-> r.n]
    /\ out' = <<>>
    /\ last' = NoLast
    /\ UNCHANGED <<state, cmd_down, next_token, mode, slots, running, queue, timers,
                   now, clipboard, restores, quit_sent, armed, tapvars, uivars,
                   hostvars, wire>>

RetryInit ==
    /\ InitRun
    /\ main = MainUp(FALSE)
    /\ clipboard = None
    /\ wire = NoWire
    /\ \E max_wait \in ProbeWaits, reads \in ProbeReads :
         probe = [pc |-> "call", max_wait |-> max_wait, reads |-> reads]

RetryNext == RetryCall

RetrySpec == RetryInit /\ [][RetryNext]_vars

\* the reads the call made
Attempted(p) == 1..p.n

(***************************************************************************)
(* C28: read_text_with_retry returns after at least 1 and at most 6 reads  *)
(* for every max_wait; it returns the trimmed text of the first read that  *)
(* is non-empty after trimming, and nothing exactly when every read it     *)
(* made was empty or unavailable.                                          *)
(***************************************************************************)
C28_RetryReadsOneToSix ==
    probe.pc = "returned"
        => /\ probe.n >= 1
           /\ probe.n <= MAX_TRIES
           /\ \A i \in Attempted(probe) :
                ReadTrimmed(probe.reads[i]) # None
                    => /\ i = probe.n
                       /\ probe.result = ReadTrimmed(probe.reads[i])
           /\ probe.result = None
                <=> \A i \in Attempted(probe) : ReadTrimmed(probe.reads[i]) = None


\* the number that stands for a state in the shared byte
ModeNumber(st) ==
    CASE st.mode = "Idle" -> MODE_IDLE
      [] st.mode = "CopyArmed" -> MODE_COPY_ARMED
      [] st.mode = "CopySelecting" -> MODE_COPY_SELECTING
      [] st.mode = "PasteSelecting" -> MODE_PASTE_SELECTING

(***************************************************************************)
(* C29: the published mode is Idle when the agent starts and equals the    *)
(* mode of the internal state after every event the state machine has      *)
(* processed; no step other than the state machine's processing of an      *)
(* event changes the published mode, so it is Idle until the first event.  *)
(***************************************************************************)
C29_PublishedModeIsInternalMode ==
    /\ mode = MODE_IDLE
    /\ [](mode = ModeNumber(state))
    /\ [][Handles => mode' = ModeNumber(state')]_vars
    /\ [][~Handles => mode' = mode]_vars

\* an event took the state machine from Idle to the paste chooser and the
\* published mode followed
C29_Witness ==
    /\ last # NoLast
    /\ last.state = StIdle
    /\ state.mode = "PasteSelecting"
    /\ mode = MODE_PASTE_SELECTING


\* the calls of one kind among the calls of a step
CallsOp(o, op) == {i \in 1..Len(o) : o[i].op = op}

\* the slots whose content differs between two stores
Mutated(a, b) == {k \in DOMAIN a : a[k] # b[k]}

(***************************************************************************)
(* C30: the processing of one event sends at most one transport message,   *)
(* changes at most one slot of the store with at most one save and one     *)
(* write-through, and calls the clipboard bridge (read_text_with_retry or  *)
(* paste_from_slot) at most once.                                          *)
(***************************************************************************)
C30_OneSideEffectOfEachKind ==
    [][Handles =>
        /\ Cardinality(Transport(out')) <= 1
        /\ Cardinality(CallsOp(out', "save")) <= 1
        /\ Cardinality(CallsOp(out', "upsert_slot")) <= 1
        /\ Cardinality(Mutated(slots, slots')) <= 1
        /\ Cardinality(ClipboardCalls(out')) <= 1]_vars

\* a slot key pressed while the save chooser was open: one call of the
\* bridge, one save, written through once
C30_Witness ==
    /\ last # NoLast
    /\ last.state.mode = "CopySelecting"
    /\ Cardinality(ClipboardCalls(out)) = 1
    /\ Cardinality(CallsOp(out, "save")) = 1
    /\ Cardinality(CallsOp(out, "upsert_slot")) = 1
    /\ \E i \in CallsOp(out, "save") : slots[out[i].slot] = Some(out[i].text)


(***************************************************************************)
(* C31: the slots change only in the handling of a slot key while a save   *)
(* chooser is pending; every other event (arming, paste, Escape, Timeout,  *)
(* stale events, Quit) and every step of another thread leaves all six     *)
(* slots as they were, and a save into slot s changes no slot but s.       *)
(***************************************************************************)
C31_SlotsChangeOnlyBySave ==
    /\ [][~Handles => slots' = slots]_vars
    /\ [][Handles =>
            /\ ~SavesOn(last'.state, last'.event) => slots' = slots
            /\ \A s \in SlotId :
                 slots'[s] # slots[s]
                    => /\ last'.event.key.slot = s
                       /\ \E i \in CallsOp(out', "save") :
                            /\ out'[i].slot = s
                            /\ slots'[s] = Some(out'[i].text)]_vars

\* a save into one slot was handled while another slot held text, which it
\* still holds
C31_Witness ==
    /\ last # NoLast
    /\ SavesOn(last.state, last.event)
    /\ \E i \in CallsOp(out, "save") :
         /\ slots[out[i].slot] = Some(out[i].text)
         /\ \E s \in SlotId \ {out[i].slot} :
              slots[s] # None /\ slots[s] # Some(out[i].text)


\* the step is the prologue of run
Prologue == out' # <<>> /\ out'[1].op = "run_prologue"

(***************************************************************************)
(* C32: the prologue of run, which the loop of run follows in the same     *)
(* thread, fills the store: with a connection and a load that succeeds,    *)
(* every row of the table whose key is a slot label is in its slot and the *)
(* other slots are empty; with no connection, or when the load fails, all  *)
(* six slots are empty.  No event is handled before the prologue, and the  *)
(* store is as the prologue left it when the first event is handled.       *)
(***************************************************************************)
C32_LoadedBeforeFirstEvent ==
    /\ [][Prologue =>
            LET p == out'[1] IN
            IF p.conn /\ p.ok
            THEN \A s \in SlotId :
                    slots'[s] = IF s \in DOMAIN p.rows THEN Some(p.rows[s]) ELSE None
            ELSE slots' = EmptySlots]_vars
    /\ [][Handles => main.run = "loop"]_vars
    /\ [][(~Handles /\ ~Prologue) => slots' = slots]_vars

\* the first event is handled with the two rows of the table in their slots
C32_Witness ==
    /\ last # NoLast
    /\ main.persistence
    /\ armed = <<>>
    /\ state = StIdle
    /\ slots["J"] = Some(<<"b">>)
    /\ slots["K"] = Some(<<>>)


\* a slot key-down is handled in an open arming at or after its deadline
LateSlotKey ==
    /\ Handles
    /\ NonIdle(state)
    /\ last'.event.type = "KeyDown"
    /\ last'.event.key.kind = "Slot"
    /\ now >= state.deadline

\* the step saves nothing and pastes nothing
NothingSavedOrPasted ==
    /\ slots' = slots
    /\ clipboard' = clipboard
    /\ restores' = restores
    /\ out' = <<>>

(***************************************************************************)
(* C33: a slot key-down handled at or after the deadline of the current    *)
(* arming saves nothing and pastes nothing, whether or not the Timeout of  *)
(* the arming has been sent; the state becomes Idle, except in CopyArmed   *)
(* with Cmd still held, where the key is ignored and the arming stays.     *)
(***************************************************************************)
C33_LateSlotKeyDoesNothing ==
    [][LateSlotKey =>
        /\ NothingSavedOrPasted
        /\ IF state.mode = "CopyArmed" /\ cmd_down
           THEN state' = state /\ mode' = MODE_COPY_ARMED
           ELSE state' = StIdle /\ mode' = MODE_IDLE]_vars

\* C33 as stated: a late slot key-down saves nothing, pastes nothing and
\* returns the mode to Idle.
C33_LateSlotKeyReturnsToIdle ==
    [][LateSlotKey =>
        /\ NothingSavedOrPasted
        /\ state' = StIdle
        /\ mode' = MODE_IDLE]_vars

\* the key of a slot that holds text was handled in the paste chooser after
\* the deadline, the timer of the arming not having sent its Timeout yet
C33_Witness ==
    /\ last # NoLast
    /\ last.state.mode = "PasteSelecting"
    /\ last.event.type = "KeyDown"
    /\ last.event.key.kind = "Slot"
    /\ ~is_empty(slots, last.event.key.slot)
    /\ last.now >= last.state.deadline
    /\ \E tm \in timers : tm.token = last.state.token
    /\ state = StIdle
    /\ out = <<>>


(***************************************************************************)
(* A paste with the tap in place.  post_cmd_v_realistic posts its four     *)
(* events at CGEventTapLocation::HID (paste.rs:56), where run_event_tap    *)
(* installed the tap of this process (event_tap.rs), so the callback is    *)
(* called for each of them as for a key of the user.  The thread of the    *)
(* tap runs beside the handler that posts: a callback may load the mode    *)
(* before the store that ends the handler, or after it.                    *)
(***************************************************************************)
\* the keys of the user: Cmd+V down and up, the key of the slot J down and up
PasteRaws ==
    {Raw(ty, VK_ANSI_V, CMD_MASK) : ty \in {"KeyDown", "KeyUp"}}
        \cup {Raw(ty, VK_ANSI_J, 0) : ty \in {"KeyDown", "KeyUp"}}

PasteTapLoad ==
    /\ TapLoad
    /\ callback'[1].raw \in PasteRaws

\* the callback is called for the oldest posted event and loads the mode:
\* early, the mode published while the handler that posted was running
SynthLoad ==
    \E early \in BOOLEAN :
        /\ callback = None
        /\ hid # <<>>
        /\ early => Head(hid).before # None
        /\ callback' = Some([raw |-> Head(hid).raw,
                             m |-> IF early THEN Head(hid).before[1] ELSE mode,
                             synth |-> TRUE])
        /\ hid' = IF early THEN Tail(hid)
                  ELSE [i \in 1..(Len(hid) - 1) |->
                            [hid[i + 1] EXCEPT !.before = None]]
        /\ out' = <<>>
        /\ last' = NoLast
        /\ UNCHANGED <<state, cmd_down, next_token, mode, slots, running, queue,
                       timers, now, clipboard, restores, quit_sent, armed, gates,
                       contrary, uivars, hostvars, fnvars>>

\* every clipboard call of a paste succeeds and all four events are posted
PasteProcess ==
    /\ Process
    /\ \A i \in Pastes(out') :
        \E k \in CallsOf(out'[i].calls, "spawn_restore") :
            out'[i].calls[k].backup # None

\* a restore thread whose write succeeds
PasteRestore ==
    /\ RestoreTask
    /\ \E i \in 1..Len(restores) :
        /\ restores' = RemoveAt(restores, i)
        /\ restores[i] # None
        /\ clipboard' = restores[i]

\* the text on the clipboard before the first paste
PasteClip == Some(<<"a">>)

PasteInit ==
    /\ InitAgent
    /\ main = MainUp(TRUE)
    /\ slots = LoadedSlots
    /\ clipboard = PasteClip
    /\ wire = NoWire
    /\ probe = NoProbe

PasteNext ==
    \/ PasteTapLoad
    \/ SynthLoad
    \/ TapReturn
    \/ PasteProcess
    \/ PasteRestore

PasteSpec == PasteInit /\ [][PasteNext]_vars

\* the event handled was sent by the callback of a posted event
HandlesSynth == Handles /\ last'.gate # None /\ last'.gate[1].synth

(***************************************************************************)
(* C34: the callback keeps every key event that paste_from_slot posted,    *)
(* and no event sent for one of them takes the state machine out of Idle:  *)
(* after a paste the state stays Idle until the user presses a hotkey.     *)
(***************************************************************************)
C34_PostedCmdVPassesTheGate ==
    [][/\ (Returned /\ Cb.synth) => Cb.result = "Keep"
       /\ (HandlesSynth /\ state = StIdle) => state' = StIdle]_vars

(***************************************************************************)
(* C35: whenever the state machine goes from Idle to PasteSelecting, the   *)
(* callback swallowed the Cmd+V key-down it handles: the foreground        *)
(* application never receives a Cmd+V that also arms the paste chooser.    *)
(***************************************************************************)
C35_ArmingCmdVWasSwallowed ==
    [][(Handles /\ state = StIdle /\ state'.mode = "PasteSelecting") =>
        /\ last'.gate # None
        /\ last'.gate[1].swallow]_vars

(***************************************************************************)
(* C36: the trigger of every Cmd+V key-down that the callback swallowed    *)
(* puts the state machine in PasteSelecting when it is handled: no Cmd+V   *)
(* is taken from the foreground application and then ignored.              *)
(***************************************************************************)
C36_SwallowedCmdVArms ==
    [][(Handles /\ last'.event.type = "CmdVTrigger") =>
        state'.mode = "PasteSelecting"]_vars

(***************************************************************************)
(* C37: once every restore thread that the pastes started has run, no      *)
(* other party having written the clipboard, the clipboard holds the text  *)
(* it held before the first paste, also when a paste started within the    *)
(* restore delay of the one before.                                        *)
(***************************************************************************)
C37_ClipboardRestoredAfterPastes ==
    restores = <<>> => clipboard = PasteClip

(***************************************************************************)
(* The two threads of the chooser UI alone: the listener takes datagrams   *)
(* and the main thread runs the closures handed to it.  The event loop of  *)
(* the main thread runs each closure of run_on_main_thread in its turn, so *)
(* UiMain is weakly fair; datagrams may stop arriving at any time.         *)
(***************************************************************************)
UiLiveNext ==
    \/ UiReceive
    \/ UiMain

UiLiveSpec == UiInit /\ [][UiLiveNext]_vars /\ WF_vars(UiMain)

\* the listener has just received hide(t), and show(t) was received before:
\* its closure waits for the main thread, or has run and t is the token
ShowThenHide(t) ==
    /\ out = << [op |-> "ui_recv", msg |-> HideMsg(t)] >>
    /\ \/ current_token = Some(t)
       \/ \E i \in 1..Len(main_thread) :
            main_thread[i].op = "show" /\ main_thread[i].token = t

(***************************************************************************)
(* C38: when the listener has received show(T) and then hide(T), the       *)
(* chooser window is eventually hidden with the current token cleared,     *)
(* however the listener thread and the main thread interleave.             *)
(***************************************************************************)
C38_HideAfterShowHides ==
    \A t \in UdpTokens :
        ShowThenHide(t) ~> (~chooser_visible /\ current_token = None)

====
